---- MODULE Spec2Model ----
(***************************************************************************)
(* Cloud-side ingestion and analysis pipeline of the Axis I.S. cameras:    *)
(* bus router (mqtt_handler.py), scene memory (scene_memory.py), the       *)
(* key-value and relational adapters (database.py) and the analysis        *)
(* dispatcher (claude_agent.py / gemini_agent.py), with the manual frame   *)
(* request of the HTTP surface (main.py).                                  *)
(*                                                                         *)
(* Every handler runs as its own asyncio task; a task is interleaved with  *)
(* the others only at an await, so one action of the model is one awaited  *)
(* store / bus / provider operation together with the local code that      *)
(* follows it up to the next await.  A Redis EXPIRE that directly follows  *)
(* a write is folded into the write: key expiry itself is an environment   *)
(* action that may happen at any time.                                     *)
(***************************************************************************)
EXTENDS Integers, Sequences, FiniteSets, TLC

(***************************************************************************)
(* Bounds of the model                                                     *)
(***************************************************************************)
NumCameras == 2          \* cameras publishing on the bus
MaxMsgs == 2             \* bus messages delivered in one behaviour
MaxInFlight == 2         \* a message arrives while fewer tasks than this are alive
MaxStamp == 3            \* timestamps are StampUnit * 1..MaxStamp
MaxCalls == 3            \* scene-memory calls in one behaviour (SpecMem)
MaxClock == 1            \* wall-clock readings are 0..MaxClock
MaxJobs == 3             \* analyses dispatched in one behaviour (SpecDispatch)
MaxExpiries == 1         \* keys whose TTL runs out in one behaviour
MaxRace == 3             \* metadata messages in one behaviour (SpecRace)
MaxTimed == 2            \* analyses timed in one behaviour (SpecClock)
MaxOver == 2             \* entries beyond ContextLimit in a set (SpecContext)
MaxEvals == 1            \* should_request_frame calls in one behaviour (SpecTrig)

(***************************************************************************)
(* Settings (config.py).  scene_memory_frames and max_concurrent_analyses  *)
(* are deployment settings read from the environment; the model runs with  *)
(* small values of them (the defaults are 30 and 5).  Scores and           *)
(* confidences are in hundredths, so 0.7 is 70.                            *)
(***************************************************************************)
scene_memory_frames == 2
max_concurrent_analyses == 2
motion_threshold == 70
vehicle_confidence_threshold == 50
Tolerance == 1000000
RecentLimit == 5
StampUnit == 500000

NoneVal == -1            \* Python None for an optional integer

Cameras == 1..NumCameras
Stamps == {StampUnit * k : k \in 1..MaxStamp}

\* Python truthiness of an optional integer: None and 0 are falsy
Truthy(x) == x # NoneVal /\ x # 0

Max(a, b) == IF a > b THEN a ELSE b
Abs(x) == IF x < 0 THEN -x ELSE x

(***************************************************************************)
(* Metadata messages and scene-memory entries                              *)
(***************************************************************************)
\* a metadata payload: the fields the service reads
Metadata(ts, seqno, motion, hash, dets) ==
    [timestamp_us |-> ts, sequence |-> seqno, motion_score |-> motion,
     object_count |-> Len(dets), scene_hash |-> hash, detections |-> dets]

NoMetadata == Metadata(NoneVal, NoneVal, NoneVal, NoneVal, <<>>)

\* frame_data built by add_metadata: has_image False, no image fields
MetadataEntry(m) ==
    [timestamp_us |-> m.timestamp_us, has_meta |-> TRUE,
     frame_id |-> m.sequence, motion_score |-> m.motion_score,
     object_count |-> m.object_count, scene_hash |-> m.scene_hash,
     detections |-> m.detections, has_image |-> FALSE,
     image_base64 |-> NoneVal, request_id |-> NoneVal]

\* frame_data built by add_frame_image when no entry matches
ImageEntry(ts, rid, img) ==
    [timestamp_us |-> ts, has_meta |-> FALSE,
     frame_id |-> NoneVal, motion_score |-> NoneVal,
     object_count |-> NoneVal, scene_hash |-> NoneVal,
     detections |-> <<>>, has_image |-> TRUE,
     image_base64 |-> img, request_id |-> rid]

\* the matched entry after frame['has_image'] = True etc.
UpgradeEntry(e, rid, img) ==
    [e EXCEPT !.has_image = TRUE, !.image_base64 = img, !.request_id = rid]

NoEntry == ImageEntry(NoneVal, NoneVal, NoneVal)

(***************************************************************************)
(* The sorted set: members are the JSON texts of the entries, the score is *)
(* the entry's timestamp_us.  Members of equal score are ordered by their  *)
(* bytes.  JsonKey lists the values of an entry in the order json.dumps    *)
(* writes them; the values used by the model have one width per field, so  *)
(* that comparing numbers is comparing their digits, and null sorts after  *)
(* every digit.                                                            *)
(***************************************************************************)
NumKey(x) == IF x = NoneVal THEN 1000000000 ELSE x

DetKey(dets) == IF dets = <<>> THEN 0
                ELSE 1 + dets[1].class_id * 1000 + dets[1].confidence + 1000000 * Len(dets)

JsonKey(e) ==
    IF e.has_meta
    THEN <<0, NumKey(e.frame_id), NumKey(e.motion_score), NumKey(e.object_count),
           NumKey(e.scene_hash), DetKey(e.detections),
           IF e.has_image THEN 1 ELSE 0, NumKey(e.image_base64), NumKey(e.request_id)>>
    ELSE <<1, NumKey(e.request_id), 1, NumKey(e.image_base64), 0, 0, 0, 0, 0>>

LexLess(a, b) ==
    \E i \in 1..Len(a) : a[i] < b[i] /\ \A j \in 1..(i - 1) : a[j] = b[j]

\* a rank order by member bytes first, then by score
BeforeByMember(a, b) ==
    \/ LexLess(JsonKey(a), JsonKey(b))
    \/ JsonKey(a) = JsonKey(b) /\ a.timestamp_us < b.timestamp_us

\* rank order of the sorted set: by score, then by member bytes
Before(a, b) ==
    \/ a.timestamp_us < b.timestamp_us
    \/ a.timestamp_us = b.timestamp_us /\ LexLess(JsonKey(a), JsonKey(b))

RECURSIVE SortedSeq(_)
SortedSeq(S) ==
    IF S = {} THEN <<>>
    ELSE LET lo == CHOOSE x \in S : \A y \in S \ {x} : Before(x, y)
         IN <<lo>> \o SortedSeq(S \ {lo})

\* Redis index sanitising shared by ZRANGE and ZREMRANGEBYRANK:
\* the 0-based inclusive range <<start, stop>>, empty when start > stop
RankRange(n, start, stop) ==
    LET s0 == IF start < 0 THEN n + start ELSE start
        e0 == IF stop < 0 THEN n + stop ELSE stop
        s1 == IF s0 < 0 THEN 0 ELSE s0
    IN IF s1 > e0 \/ s1 >= n THEN <<1, 0>>
       ELSE <<s1, IF e0 >= n THEN n - 1 ELSE e0>>

ZRange(S, start, stop) ==
    LET r == RankRange(Cardinality(S), start, stop)
    IN SubSeq(SortedSeq(S), r[1] + 1, r[2] + 1)

ZRemRangeByRank(S, start, stop) ==
    LET r == RankRange(Cardinality(S), start, stop)
        sorted == SortedSeq(S)
    IN S \ {sorted[i + 1] : i \in r[1]..r[2]}

\* ZADD of one member whose score is its timestamp_us
ZAdd(S, e) == S \cup {e}

\* get_scene_memory leaving out the newest entry
get_scene_memory_short(S, limit) == ZRange(S, -limit, -2)

\* RedisCache.get_scene_memory
get_scene_memory(S, limit) == ZRange(S, -limit, -1)

\* the trim at the end of RedisCache.add_to_scene_memory
TrimOffByOne(S) == ZRemRangeByRank(S, 0, -(scene_memory_frames + 2))
TrimSceneMemory(S) == ZRemRangeByRank(S, 0, -(scene_memory_frames + 1))

\* the matching loop with a tolerance that includes one second exactly
FirstMatchInclusive(frames, ts) ==
    LET hits == {i \in 1..Len(frames) : Abs(frames[i].timestamp_us - ts) <= Tolerance}
    IN IF hits = {} THEN 0 ELSE CHOOSE i \in hits : \A j \in hits : i <= j

\* SceneMemory.add_frame_image: index of the first entry of frames within
\* the tolerance of ts, 0 when there is none
FirstMatch(frames, ts) ==
    LET hits == {i \in 1..Len(frames) : Abs(frames[i].timestamp_us - ts) < Tolerance}
    IN IF hits = {} THEN 0 ELSE CHOOSE i \in hits : \A j \in hits : i <= j

\* the entry add_frame_image writes, given the frames it read
FrameImageEntry(frames, rid, ts, img) ==
    LET i == FirstMatch(frames, ts)
    IN IF i = 0 THEN ImageEntry(ts, rid, img) ELSE UpgradeEntry(frames[i], rid, img)

\* SceneMemory.get_context_for_analysis reads with limit=30
ContextLimit == 30

\* SceneMemory.get_context_for_analysis: the counts of the context
get_context_for_analysis(S) ==
    LET frames == get_scene_memory(S, ContextLimit)
    IN [frames_available |-> Len(frames),
        frames_with_images |-> Cardinality({i \in 1..Len(frames) : frames[i].has_image})]

\* get_recent_frames returning the eldest entries (frames[:limit])
get_recent_frames_eldest(S, limit, with_images) ==
    LET all == get_scene_memory(S, scene_memory_frames)
        frames == IF with_images THEN SelectSeq(all, LAMBDA f : f.has_image) ELSE all
        n == Len(frames)
    IN IF limit # 0 THEN SubSeq(frames, 1, IF limit < n THEN limit ELSE n) ELSE frames

\* SceneMemory.get_recent_frames
get_recent_frames(S, limit, with_images) ==
    LET all == get_scene_memory(S, scene_memory_frames)
        frames == IF with_images THEN SelectSeq(all, LAMBDA f : f.has_image) ELSE all
        n == Len(frames)
    IN IF limit # 0 THEN SubSeq(frames, Max(1, n - limit + 1), n) ELSE frames

(***************************************************************************)
(* State                                                                   *)
(***************************************************************************)
VARIABLES
    settings,       \* frame_request_enabled, scene_change_enabled (config.py)
    scene,          \* camera:{id}:scene_memory, the sorted set of each camera
    camstate,       \* camera:{id}:state, the hash of each camera
    cooldown,       \* camera:{id}:last_request exists
    side_event,     \* frame_request:{rid}:event_id, NoneVal when the key is absent
    side_meta,      \* frame_request:{rid}:metadata, NoMetadata when absent
    events,         \* rows of camera_events
    analyses,       \* rows of claude_analyses
    published,      \* frame_request messages published on the bus
    tasks,          \* the per-message handler tasks (handle_message)
    jobs,           \* the background analyze_scene tasks
    permits,        \* value of the agent's semaphore
    clock,          \* reading of time.time()
    stats,          \* messages_received, frame_requests_sent, analyses_triggered
    delivered,      \* number of tasks started so far
    expiries,       \* number of keys that have expired so far
    evicted_max,    \* history: highest timestamp_us trimmed from each set since the key was created
    dispatched,     \* history: the analyses handed to create_task, in order
    life            \* main.lifespan: its position, the clients, the ingress task

vars == <<settings, scene, camstate, cooldown, side_event, side_meta, events,
          analyses, published, tasks, jobs, permits, clock, stats, delivered,
          expiries, evicted_max, dispatched, life>>


TaskIds == 1..(2 * MaxJobs + MaxMsgs + MaxCalls)
RequestIds == TaskIds             \* the uuid4 of a request is the id of the task that made it

\* RedisCache.set_camera_state: ttl of the key when the caller gives none
state_ttl == 300
\* handle_status: set_camera_state(camera_id, status, ttl=120)
status_ttl == 120

\* camera:{id}:state without a field: the key does not exist. ttl is what is
\* left of the key's TTL; written and hash_ttl record the hash written last
\* and what is left of the state_ttl seconds that write gave the key
NoState == [last_scene_hash |-> NoneVal, status |-> NoneVal, ttl |-> 0,
            written |-> NoneVal, hash_ttl |-> 0]

\* RedisCache.set_camera_state: HSET of one field, EXPIRE of the key
set_camera_state(state, field, value, ttl) ==
    [state EXCEPT ![field] = value, !.ttl = ttl]

\* set_camera_state(camera_id, {'last_scene_hash': hash})
WriteHash(state, hash) ==
    [set_camera_state(state, "last_scene_hash", hash, state_ttl)
        EXCEPT !.written = hash, !.hash_ttl = state_ttl]
\* the status field of a camera that has reported
Online == 1

IdleTask ==
    [kind |-> "none", pc |-> "idle", camera_id |-> 0,
     metadata |-> NoMetadata,                       \* payload of a metadata message
     request_id |-> NoneVal, timestamp_us |-> NoneVal, image_base64 |-> NoneVal,
     entry |-> NoEntry,                             \* frame_data about to be written
     event_id |-> NoneVal, trigger_metadata |-> NoMetadata,
     can_request |-> TRUE, should_request |-> FALSE, reason |-> "",
     new_request_id |-> NoneVal,
     side_written |-> 0,                            \* history: side-table keys written by request_frame
     merged |-> FALSE,                              \* history: the written entry was in the set
     mark_at_check |-> FALSE,                       \* history: cooldown mark present at the check
     frames_available |-> NoneVal,                  \* frames_available of the context returned
     racers |-> NoneVal,                            \* history: handlers past the check at the mark's write
     window_open |-> FALSE,                         \* history: the mark written has not expired
     hash_at_call |-> NoneVal,                      \* history: last_scene_hash when called
     segments |-> 4,                                \* len(topic.split('/'))
     json_ok |-> TRUE,                              \* json.loads(payload) returns
     dropped |-> FALSE]                             \* history: the message was dropped unhandled

InFlight == {t \in TaskIds : tasks[t].pc \notin {"idle", "done", "failed"}}

\* the pc at which a task continues when the function fn returns
AfterReturn(kind, fn) ==
    CASE kind = "handle_metadata" /\ fn = "add_metadata" -> "store_event"
      [] kind = "handle_frame" /\ fn = "add_frame_image" -> "hf_get_event"
      [] OTHER -> "done"

\* a task that has ended: its locals are gone; kept are its kind, what
\* should_request_frame returned and, as history, the arguments of a direct
\* call of should_request_frame and what a frame handler found
Ended(T, pc) ==
    LET E == [IdleTask EXCEPT !.kind = T.kind, !.pc = pc, !.camera_id = T.camera_id,
                              !.should_request = T.should_request, !.reason = T.reason,
                              !.dropped = T.dropped]
    IN CASE T.kind = "should_request_frame" ->
              [E EXCEPT !.metadata = T.metadata, !.can_request = T.can_request,
                        !.mark_at_check = T.mark_at_check,
                        !.hash_at_call = T.hash_at_call]
         [] T.kind = "handle_frame" ->
              [E EXCEPT !.request_id = T.request_id, !.event_id = T.event_id,
                        !.merged = T.merged]
         [] OTHER -> E

\* task record T moves on with the return of fn
Return(T, fn) ==
    IF AfterReturn(T.kind, fn) = "done" THEN Ended(T, "done")
    ELSE [T EXCEPT !.pc = AfterReturn(T.kind, fn)]

\* ai_provider selects ClaudeAgent or GeminiAgent (ai_factory.create_ai_agent)
Providers == {"claude", "gemini"}

\* ai_factory.create_ai_agent: the agent made under configuration cfg, or the
\* exception raised; cfg.api_key says whether the key of the configured
\* provider is set
create_ai_agent(cfg) ==
    IF cfg.ai_provider \in Providers
    THEN IF cfg.api_key THEN cfg.ai_provider ELSE "RuntimeError"
    ELSE "ValueError"

\* ai_factory.get_ai_agent: the global instance, made at the first call
get_ai_agent(agent, cfg) == IF agent = "none" THEN create_ai_agent(cfg) ELSE agent

\* main.lifespan.  pc is its position; db, redis and bus are "none" before
\* the client object exists, then "open" and "closed" ("created" for an MQTT
\* client that was built and not entered); running is MQTTHandler.running;
\* agent is ai_factory._ai_agent;
\* ingress is the state of mqtt_task; error is the exception being raised;
\* log keeps, as history, the steps done in order
LifeServing ==
    [pc |-> "serving", db |-> "open", redis |-> "open", bus |-> "open", running |-> TRUE,
     ingress |-> "running", error |-> "", agent |-> "none",
     log |-> <<"db_pool", "db_schema", "redis_connect", "mqtt_connect", "mqtt_subscribe",
               "create_task">>]

DefaultSettings ==
    [frame_request_enabled |-> TRUE, scene_change_enabled |-> TRUE, ai_provider |-> "claude",
     api_key |-> TRUE]

\* the service after startup: empty stores, no task, all permits free
Init ==
    /\ settings = DefaultSettings
    /\ scene = [c \in Cameras |-> {}]
    /\ camstate = [c \in Cameras |-> NoState]
    /\ cooldown = [c \in Cameras |-> FALSE]
    /\ side_event = [r \in RequestIds |-> NoneVal]
    /\ side_meta = [r \in RequestIds |-> NoMetadata]
    /\ events = <<>>
    /\ analyses = <<>>
    /\ published = <<>>
    /\ tasks = [t \in TaskIds |-> IdleTask]
    /\ jobs = <<>>
    /\ permits = max_concurrent_analyses
    /\ clock = 0
    /\ stats = [messages_received |-> 0, frame_requests_sent |-> 0, analyses_triggered |-> 0]
    /\ delivered = 0
    /\ expiries = 0
    /\ evicted_max = [c \in Cameras |-> NoneVal]
    /\ dispatched = <<>>
    /\ life = LifeServing

(***************************************************************************)
(* Scene memory: SceneMemory.add_metadata, SceneMemory.add_frame_image and *)
(* RedisCache.add_to_scene_memory                                          *)
(***************************************************************************)
\* history kept with a trim: the newest timestamp trimmed so far
EvictedMax(old, before, after) ==
    LET gone == {e.timestamp_us : e \in before \ after}
    IN IF gone = {} THEN old
       ELSE Max(old, CHOOSE x \in gone : \A y \in gone : y <= x)

\* add_metadata up to the ZADD: a message without a timestamp is dropped
AddMetadataZadd(t) ==
    LET T == tasks[t]
        ts == T.metadata.timestamp_us IN
    /\ T.pc = "am_zadd"
    /\ IF ~Truthy(ts)
       THEN /\ tasks' = [tasks EXCEPT ![t] = Return(T, "add_metadata")]
            /\ UNCHANGED scene
       ELSE /\ scene' = [scene EXCEPT ![T.camera_id] = ZAdd(@, MetadataEntry(T.metadata))]
            /\ tasks' = [tasks EXCEPT ![t].pc = "am_trim",
                                      ![t].entry = MetadataEntry(T.metadata)]
    /\ UNCHANGED <<settings, camstate, cooldown, side_event, side_meta, events, analyses,
                   published, jobs, permits, clock, stats, delivered, expiries,
                   evicted_max, dispatched, life>>

\* the ZREMRANGEBYRANK of add_to_scene_memory, then the return of add_metadata
AddMetadataTrim(t) ==
    LET T == tasks[t]
        c == T.camera_id IN
    /\ T.pc = "am_trim"
    /\ scene' = [scene EXCEPT ![c] = TrimSceneMemory(@)]
    /\ evicted_max' = [evicted_max EXCEPT ![c] = EvictedMax(@, scene[c], scene'[c])]
    /\ tasks' = [tasks EXCEPT ![t] = Return(T, "add_metadata")]
    /\ UNCHANGED <<settings, camstate, cooldown, side_event, side_meta, events, analyses,
                   published, jobs, permits, clock, stats, delivered, expiries, dispatched,
                   life>>

\* add_frame_image: read the set and pick the entry to write
AddFrameImageRead(t) ==
    LET T == tasks[t]
        frames == get_scene_memory(scene[T.camera_id], scene_memory_frames) IN
    /\ T.pc = "af_read"
    /\ tasks' = [tasks EXCEPT ![t].pc = "af_zadd",
                              ![t].entry = FrameImageEntry(frames, T.request_id,
                                                           T.timestamp_us, T.image_base64)]
    /\ UNCHANGED <<settings, scene, camstate, cooldown, side_event, side_meta, events,
                   analyses, published, jobs, permits, clock, stats, delivered, expiries,
                   evicted_max, dispatched, life>>

\* add_frame_image without its write
AddFrameImageSkipped(t) ==
    LET T == tasks[t] IN
    /\ T.pc = "af_zadd"
    /\ tasks' = [tasks EXCEPT ![t].pc = "af_trim",
                              ![t].merged = (T.entry \in scene[T.camera_id])]
    /\ UNCHANGED <<settings, scene, camstate, cooldown, side_event, side_meta, events,
                   analyses, published, jobs, permits, clock, stats, delivered, expiries,
                   evicted_max, dispatched, life>>

\* add_frame_image: ZADD of the upgraded or new entry
AddFrameImageZadd(t) ==
    LET T == tasks[t] IN
    /\ T.pc = "af_zadd"
    /\ scene' = [scene EXCEPT ![T.camera_id] = ZAdd(@, T.entry)]
    /\ tasks' = [tasks EXCEPT ![t].pc = "af_trim",
                              ![t].merged = (T.entry \in scene'[T.camera_id])]
    /\ UNCHANGED <<settings, camstate, cooldown, side_event, side_meta, events, analyses,
                   published, jobs, permits, clock, stats, delivered, expiries,
                   evicted_max, dispatched, life>>

\* add_frame_image: the trim, then the return
AddFrameImageTrim(t) ==
    LET T == tasks[t]
        c == T.camera_id IN
    /\ T.pc = "af_trim"
    /\ scene' = [scene EXCEPT ![c] = TrimSceneMemory(@)]
    /\ evicted_max' = [evicted_max EXCEPT ![c] = EvictedMax(@, scene[c], scene'[c])]
    /\ tasks' = [tasks EXCEPT ![t] = Return(T, "add_frame_image")]
    /\ UNCHANGED <<settings, camstate, cooldown, side_event, side_meta, events, analyses,
                   published, jobs, permits, clock, stats, delivered, expiries, dispatched,
                   life>>

\* the TTL of camera:{id}:scene_memory runs out: the key is gone
ExpireSceneMemory(c) ==
    /\ expiries < MaxExpiries
    /\ expiries' = expiries + 1
    /\ scene[c] # {}
    /\ scene' = [scene EXCEPT ![c] = {}]
    /\ evicted_max' = [evicted_max EXCEPT ![c] = NoneVal]
    /\ UNCHANGED <<settings, camstate, cooldown, side_event, side_meta, events, analyses,
                   published, tasks, jobs, permits, clock, stats, delivered, dispatched,
                   life>>

SceneStep(t) ==
    \/ AddMetadataZadd(t)
    \/ AddMetadataTrim(t)
    \/ AddFrameImageRead(t)
    \/ AddFrameImageZadd(t)
    \/ AddFrameImageTrim(t)

(***************************************************************************)
(* Trigger evaluation: SceneMemory.should_request_frame                    *)
(***************************************************************************)
VehicleClasses == {2, 5, 7}

VehicleReason(class_id) ==
    CASE class_id = 2 -> "vehicle_detected_2"
      [] class_id = 5 -> "vehicle_detected_5"
      [] OTHER -> "vehicle_detected_7"

\* index of the first detection that is a confident vehicle, 0 when none
FirstVehicle(detections) ==
    LET hits == {i \in 1..Len(detections) :
                    /\ detections[i].class_id \in VehicleClasses
                    /\ detections[i].confidence > vehicle_confidence_threshold}
    IN IF hits = {} THEN 0 ELSE CHOOSE i \in hits : \A j \in hits : i <= j

\* the rules with the motion trigger tested before the cooldown
TriggerRulesMotionFirst(cfg, can_request, m) ==
    IF Truthy(m.motion_score) /\ m.motion_score > motion_threshold
    THEN [next |-> "return", fire |-> TRUE, reason |-> "high_motion"]
    ELSE IF ~can_request
    THEN [next |-> "return", fire |-> FALSE, reason |-> "cooldown"]
    ELSE [next |-> "return", fire |-> FALSE, reason |-> "no_trigger"]

\* should_request_frame from the cooldown answer to the scene-change test:
\* next = "return" with the result, or next = "get_state" to go on with
\* the scene-change rule
TriggerRules(cfg, can_request, m) ==
    LET motion_score == IF Truthy(m.motion_score) THEN m.motion_score ELSE 0
        v == FirstVehicle(m.detections)
    IN IF ~can_request
       THEN [next |-> "return", fire |-> FALSE, reason |-> "cooldown"]
       ELSE IF ~cfg.frame_request_enabled
       THEN [next |-> "return", fire |-> FALSE, reason |-> "disabled"]
       ELSE IF motion_score # 0 /\ motion_score > motion_threshold
       THEN [next |-> "return", fire |-> TRUE, reason |-> "high_motion"]  \* "_{score:.2f}" left out
       ELSE IF v # 0
       THEN [next |-> "return", fire |-> TRUE,
             reason |-> VehicleReason(m.detections[v].class_id)]
       ELSE IF cfg.scene_change_enabled /\ Truthy(m.scene_hash)
       THEN [next |-> "get_state", fire |-> FALSE, reason |-> ""]
       ELSE [next |-> "return", fire |-> FALSE, reason |-> "no_trigger"]

\* the scene-change rule once the camera state has been read: whether the
\* hash is written, and the result returned afterwards
SceneChangeRule(state, m) ==
    IF Truthy(state.last_scene_hash)
    THEN IF state.last_scene_hash # m.scene_hash
         THEN [write |-> TRUE, fire |-> TRUE, reason |-> "scene_change"]
         ELSE [write |-> FALSE, fire |-> FALSE, reason |-> "no_trigger"]
    ELSE [write |-> TRUE, fire |-> FALSE, reason |-> "no_trigger"]

\* task record T when should_request_frame returns (fire, reason):
\* handle_metadata goes on to request_frame when fire is set
ReturnTrigger(T, t, fire, reason) ==
    LET R == [T EXCEPT !.should_request = fire, !.reason = reason] IN
    IF T.kind = "handle_metadata" /\ fire
    THEN [R EXCEPT !.pc = "rf_setex_event", !.new_request_id = t,
                   !.trigger_metadata = T.metadata]
    ELSE Ended(R, "done")

\* RedisCache.check_request_cooldown: EXISTS camera:{id}:last_request == 0
check_request_cooldown_ignored(mark) == TRUE
check_request_cooldown(mark) == ~mark

\* the cooldown check, then the rules that need no more reads
CheckCooldown(t) ==
    LET T == tasks[t]
        can_request == check_request_cooldown(cooldown[T.camera_id])
        C == [T EXCEPT !.can_request = can_request,
                       !.mark_at_check = cooldown[T.camera_id]]
        r == TriggerRules(settings, can_request, T.metadata) IN
    /\ T.pc = "check_cooldown"
    /\ tasks' = [tasks EXCEPT ![t] =
                   IF r.next = "return"
                   THEN ReturnTrigger(C, t, r.fire, r.reason)
                   ELSE [C EXCEPT !.pc = "get_state"]]
    /\ UNCHANGED <<settings, scene, camstate, cooldown, side_event, side_meta, events,
                   analyses, published, jobs, permits, clock, stats, delivered, expiries,
                   evicted_max, dispatched, life>>

\* get_camera_state (HGETALL), then the scene-change test
GetCameraState(t) ==
    LET T == tasks[t]
        r == SceneChangeRule(camstate[T.camera_id], T.metadata) IN
    /\ T.pc = "get_state"
    /\ tasks' = [tasks EXCEPT ![t] =
                   IF r.write
                   THEN [T EXCEPT !.pc = "set_state", !.should_request = r.fire,
                                  !.reason = r.reason]
                   ELSE ReturnTrigger(T, t, r.fire, r.reason)]
    /\ UNCHANGED <<settings, scene, camstate, cooldown, side_event, side_meta, events,
                   analyses, published, jobs, permits, clock, stats, delivered, expiries,
                   evicted_max, dispatched, life>>

\* a set_camera_state that replaces the whole hash
SetCameraStateReplaces(t) ==
    LET T == tasks[t] IN
    /\ T.pc = "set_state"
    /\ camstate' = [camstate EXCEPT ![T.camera_id] =
                      WriteHash(NoState, T.metadata.scene_hash)]
    /\ tasks' = [tasks EXCEPT ![t] = ReturnTrigger(T, t, T.should_request, T.reason)]
    /\ UNCHANGED <<settings, scene, cooldown, side_event, side_meta, events, analyses,
                   published, jobs, permits, clock, stats, delivered, expiries,
                   evicted_max, dispatched, life>>

\* set_camera_state (HSET of last_scene_hash), then the return
SetCameraState(t) ==
    LET T == tasks[t] IN
    /\ T.pc = "set_state"
    /\ camstate' = [camstate EXCEPT ![T.camera_id] = WriteHash(@, T.metadata.scene_hash)]
    /\ tasks' = [tasks EXCEPT ![t] = ReturnTrigger(T, t, T.should_request, T.reason)]
    /\ UNCHANGED <<settings, scene, cooldown, side_event, side_meta, events, analyses,
                   published, jobs, permits, clock, stats, delivered, expiries,
                   evicted_max, dispatched, life>>

TriggerStep(t) ==
    \/ CheckCooldown(t)
    \/ GetCameraState(t)
    \/ SetCameraState(t)

(***************************************************************************)
(* MQTTHandler.handle_metadata and MQTTHandler.request_frame               *)
(***************************************************************************)
\* Database.store_event: the row gets the next id of the BIGSERIAL
StoreEvent(t) ==
    LET T == tasks[t]
        id == Len(events) + 1 IN
    /\ T.pc = "store_event"
    /\ life.db # "closed"                   \* acquire() on a closed pool raises
    /\ events' = Append(events, [id |-> id, camera_id |-> T.camera_id,
                                 timestamp_us |-> T.metadata.timestamp_us])
    /\ tasks' = [tasks EXCEPT ![t].pc = "check_cooldown", ![t].event_id = id]
    /\ UNCHANGED <<settings, scene, camstate, cooldown, side_event, side_meta, analyses,
                   published, jobs, permits, clock, stats, delivered, expiries,
                   evicted_max, dispatched, life>>

\* a store_event error that reaches the ingress loop and ends it
StoreEventFailsEndsIngress(t) ==
    LET T == tasks[t] IN
    /\ T.pc = "store_event"
    /\ tasks' = [tasks EXCEPT ![t] = Ended(T, "failed")]
    /\ life' = [life EXCEPT !.ingress = IF @ = "running" THEN "error" ELSE @]
    /\ UNCHANGED <<settings, scene, camstate, cooldown, side_event, side_meta, events,
                   analyses, published, jobs, permits, clock, stats, delivered, expiries,
                   evicted_max, dispatched>>

\* store_event raises (pool timeout): handle_metadata logs and ends
StoreEventFails(t) ==
    LET T == tasks[t] IN
    /\ T.pc = "store_event"
    /\ tasks' = [tasks EXCEPT ![t] = Ended(T, "failed")]
    /\ UNCHANGED <<settings, scene, camstate, cooldown, side_event, side_meta, events,
                   analyses, published, jobs, permits, clock, stats, delivered, expiries,
                   evicted_max, dispatched, life>>

\* the SETEX storing an id the event store never returned
RequestSetexEventOtherId(t) ==
    LET T == tasks[t] IN
    /\ T.pc = "rf_setex_event"
    /\ side_event' = [side_event EXCEPT ![T.new_request_id] = T.event_id + 1]
    /\ tasks' = [tasks EXCEPT ![t].pc = "rf_setex_meta", ![t].side_written = 1]
    /\ UNCHANGED <<settings, scene, camstate, cooldown, side_meta, events, analyses,
                   published, jobs, permits, clock, stats, delivered, expiries,
                   evicted_max, dispatched, life>>

\* request_frame: SETEX frame_request:{id}:event_id
RequestSetexEvent(t) ==
    LET T == tasks[t] IN
    /\ T.pc = "rf_setex_event"
    /\ side_event' = [side_event EXCEPT ![T.new_request_id] = T.event_id]
    /\ tasks' = [tasks EXCEPT ![t].pc = "rf_setex_meta", ![t].side_written = 1]
    /\ UNCHANGED <<settings, scene, camstate, cooldown, side_meta, events, analyses,
                   published, jobs, permits, clock, stats, delivered, expiries,
                   evicted_max, dispatched, life>>

\* request_frame setting the cooldown before the publish
RequestSetexMetaThenCooldown(t) ==
    LET T == tasks[t] IN
    /\ T.pc = "rf_setex_meta"
    /\ side_meta' = [side_meta EXCEPT ![T.new_request_id] = T.trigger_metadata]
    /\ tasks' = [tasks EXCEPT ![t].pc = "rf_set_cooldown", ![t].side_written = @ + 1]
    /\ UNCHANGED <<settings, scene, camstate, cooldown, side_event, events, analyses,
                   published, jobs, permits, clock, stats, delivered, expiries,
                   evicted_max, dispatched, life>>

\* request_frame: SETEX frame_request:{id}:metadata
RequestSetexMeta(t) ==
    LET T == tasks[t] IN
    /\ T.pc = "rf_setex_meta"
    /\ side_meta' = [side_meta EXCEPT ![T.new_request_id] = T.trigger_metadata]
    /\ tasks' = [tasks EXCEPT ![t].pc = "rf_publish", ![t].side_written = @ + 1]
    /\ UNCHANGED <<settings, scene, camstate, cooldown, side_event, events, analyses,
                   published, jobs, permits, clock, stats, delivered, expiries,
                   evicted_max, dispatched, life>>

\* history: the handle_metadata tasks of camera c that have passed the
\* cooldown check of should_request_frame and have not published yet
PassedCheck(c) ==
    {u \in TaskIds : /\ tasks[u].kind = "handle_metadata"
                     /\ tasks[u].camera_id = c
                     /\ tasks[u].pc \in {"get_state", "set_state", "rf_setex_event",
                                         "rf_setex_meta", "rf_publish"}}

\* history: the tasks that wrote camera c's cooldown mark since it was
\* last absent
WindowWriters(c) ==
    {u \in TaskIds : tasks[u].camera_id = c /\ tasks[u].window_open}

\* request_frame: the publish on axis-is/camera/{id}/frame_request.  The
\* record of the message also keeps, as history, what was stored for the
\* request and whether the cooldown mark was present at the publisher's
\* check and at the publish
RequestPublish(t) ==
    LET T == tasks[t] IN
    /\ T.pc = "rf_publish"
    /\ life.bus = "open"                    \* publish on a client not connected raises
    /\ published' = Append(published,
                           [camera_id |-> T.camera_id, request_id |-> T.new_request_id,
                            reason |-> T.reason,
                            timestamp |-> T.trigger_metadata.timestamp_us,
                            event_id |-> T.event_id,
                            trigger_metadata |-> T.trigger_metadata,
                            side_written |-> T.side_written,
                            mark_at_check |-> T.mark_at_check,
                            mark_at_publish |-> cooldown[T.camera_id],
                            in_window_of |-> WindowWriters(T.camera_id)])
    /\ tasks' = [tasks EXCEPT ![t].pc = "rf_set_cooldown"]
    /\ UNCHANGED <<settings, scene, camstate, cooldown, side_event, side_meta, events,
                   analyses, jobs, permits, clock, stats, delivered, expiries, evicted_max,
                   dispatched, life>>

\* a failed publish that still sets the cooldown mark
RequestPublishFailsSetsCooldown(t) ==
    LET T == tasks[t] IN
    /\ T.pc = "rf_publish"
    /\ cooldown' = [cooldown EXCEPT ![T.camera_id] = TRUE]
    /\ tasks' = [tasks EXCEPT ![t] = Ended(T, "done")]
    /\ UNCHANGED <<settings, scene, camstate, side_event, side_meta, events, analyses,
                   published, jobs, permits, clock, stats, delivered, expiries,
                   evicted_max, dispatched, life>>

\* the publish raises: request_frame logs the error and returns
RequestPublishFails(t) ==
    LET T == tasks[t] IN
    /\ T.pc = "rf_publish"
    /\ tasks' = [tasks EXCEPT ![t] = Ended(T, "done")]
    /\ UNCHANGED <<settings, scene, camstate, cooldown, side_event, side_meta, events,
                   analyses, published, jobs, permits, clock, stats, delivered, expiries,
                   evicted_max, dispatched, life>>

\* request_frame: set_request_cooldown (SETEX), then the counter
RequestSetCooldown(t) ==
    LET T == tasks[t] IN
    /\ T.pc = "rf_set_cooldown"
    /\ cooldown' = [cooldown EXCEPT ![T.camera_id] = TRUE]
    /\ stats' = [stats EXCEPT !.frame_requests_sent = @ + 1]
    /\ tasks' = [tasks EXCEPT ![t] =
                   [Ended(T, "done") EXCEPT !.racers = Cardinality(PassedCheck(T.camera_id)),
                                            !.window_open = TRUE]]
    /\ UNCHANGED <<settings, scene, camstate, side_event, side_meta, events, analyses,
                   published, jobs, permits, clock, delivered, expiries, evicted_max,
                   dispatched, life>>

\* the awaits of request_frame
RequestStep(t) ==
    \/ RequestSetexEvent(t)
    \/ RequestSetexMeta(t)
    \/ RequestPublish(t)
    \/ RequestPublishFails(t)
    \/ RequestSetCooldown(t)

MetadataStep(t) ==
    \/ StoreEvent(t)
    \/ StoreEventFails(t)
    \/ RequestStep(t)

(***************************************************************************)
(* main.manual_frame_request: POST /cameras/{camera_id}/request-frame      *)
(***************************************************************************)
\* the dummy event id and trigger metadata of a manual request
ManualEventId == 0
ManualMetadata == [timestamp_us |-> 0, manual_request |-> TRUE]

\* get_camera_state: 404 for a camera without state
ManualGetState(t) ==
    LET T == tasks[t] IN
    /\ T.pc = "mr_get_state"
    /\ tasks' = [tasks EXCEPT ![t] =
                   IF camstate[T.camera_id].ttl = 0
                   THEN Ended([T EXCEPT !.reason = "not_found"], "failed")
                   ELSE [T EXCEPT !.pc = "mr_check_cooldown"]]
    /\ UNCHANGED <<settings, scene, camstate, cooldown, side_event, side_meta, events,
                   analyses, published, jobs, permits, clock, stats, delivered, expiries,
                   evicted_max, dispatched, life>>

\* check_request_cooldown: 429 under cooldown, else request_frame is called
ManualCheckCooldown(t) ==
    LET T == tasks[t]
        can_request == check_request_cooldown(cooldown[T.camera_id]) IN
    /\ T.pc = "mr_check_cooldown"
    /\ tasks' = [tasks EXCEPT ![t] =
                   IF can_request
                   THEN [T EXCEPT !.pc = "rf_setex_event", !.can_request = TRUE,
                                  !.mark_at_check = cooldown[T.camera_id],
                                  !.reason = "manual_request",
                                  !.event_id = ManualEventId,
                                  !.trigger_metadata = ManualMetadata,
                                  !.new_request_id = t]
                   ELSE Ended([T EXCEPT !.reason = "rate_limit"], "failed")]
    /\ UNCHANGED <<settings, scene, camstate, cooldown, side_event, side_meta, events,
                   analyses, published, jobs, permits, clock, stats, delivered, expiries,
                   evicted_max, dispatched, life>>

ManualStep(t) ==
    \/ ManualGetState(t)
    \/ ManualCheckCooldown(t)

(***************************************************************************)
(* MQTTHandler.handle_frame                                                *)
(***************************************************************************)
\* a job of the analysis dispatcher: one analyze_scene coroutine
NoJob ==
    [pc |-> "done", camera_id |-> 0, trigger_metadata |-> NoMetadata,
     event_id |-> NoneVal, frames |-> 0, start_time |-> 0, duration_ms |-> 0,
     summary |-> "",                                \* summary extracted from the response
     response |-> "",                               \* history: what the provider answered
     provider_calls |-> 0,                          \* history: provider calls made
     provider_error |-> FALSE,                      \* history: the provider call raised
     result |-> ""]                                 \* history: what analyze_scene returned

NewJob(c, trigger_metadata, event_id) ==
    [NoJob EXCEPT !.pc = "acquire", !.camera_id = c,
                  !.trigger_metadata = trigger_metadata, !.event_id = event_id]

\* GET frame_request:{id}:event_id
FrameGetEvent(t) ==
    LET T == tasks[t] IN
    /\ T.pc = "hf_get_event"
    /\ tasks' = [tasks EXCEPT ![t].pc = "hf_get_meta",
                              ![t].event_id = side_event[T.request_id]]
    /\ UNCHANGED <<settings, scene, camstate, cooldown, side_event, side_meta, events,
                   analyses, published, jobs, permits, clock, stats, delivered, expiries,
                   evicted_max, dispatched, life>>

\* GET frame_request:{id}:metadata; with a truthy event_id the counter is
\* incremented and the analysis is handed to create_task before the next
\* await; get_ai_agent() is evaluated there, and what it raises ends
\* handle_frame in its except clause
FrameGetMeta(t) ==
    LET T == tasks[t]
        trigger_metadata == side_meta[T.request_id]
        agent == get_ai_agent(life.agent, settings) IN
    /\ T.pc = "hf_get_meta"
    /\ IF ~Truthy(T.event_id)
       THEN /\ tasks' = [tasks EXCEPT ![t] = Ended(T, "done")]
            /\ UNCHANGED <<stats, jobs, dispatched, life>>
       ELSE IF agent \notin Providers
       THEN /\ stats' = [stats EXCEPT !.analyses_triggered = @ + 1]
            /\ tasks' = [tasks EXCEPT ![t] = Ended(T, "failed")]
            /\ UNCHANGED <<jobs, dispatched, life>>
       ELSE /\ stats' = [stats EXCEPT !.analyses_triggered = @ + 1]
            /\ life' = [life EXCEPT !.agent = agent]
            /\ jobs' = Append(jobs, NewJob(T.camera_id, trigger_metadata, T.event_id))
            /\ dispatched' = Append(dispatched,
                                    [request_id |-> T.request_id, camera_id |-> T.camera_id,
                                     event_id |-> T.event_id,
                                     trigger_metadata |-> trigger_metadata])
            /\ tasks' = [tasks EXCEPT ![t].pc = "hf_delete",
                                      ![t].trigger_metadata = trigger_metadata]
    /\ UNCHANGED <<settings, scene, camstate, cooldown, side_event, side_meta, events,
                   analyses, published, permits, clock, delivered, expiries, evicted_max>>

\* DEL of both side-table keys
FrameDelete(t) ==
    LET T == tasks[t] IN
    /\ T.pc = "hf_delete"
    /\ side_event' = [side_event EXCEPT ![T.request_id] = NoneVal]
    /\ side_meta' = [side_meta EXCEPT ![T.request_id] = NoMetadata]
    /\ tasks' = [tasks EXCEPT ![t] = Ended(T, "done")]
    /\ UNCHANGED <<settings, scene, camstate, cooldown, events, analyses, published, jobs,
                   permits, clock, stats, delivered, expiries, evicted_max, dispatched,
                   life>>

FrameStep(t) ==
    \/ FrameGetEvent(t)
    \/ FrameGetMeta(t)
    \/ FrameDelete(t)

(***************************************************************************)
(* Analysis dispatcher: ClaudeAgent.analyze_scene / GeminiAgent.analyze_scene *)
(* (the two differ in the wire encoding only)                              *)
(***************************************************************************)
JobIds == 1..Len(jobs)
\* every task dispatches at most one analysis
JobSlots == TaskIds

Holders == {j \in JobIds : jobs[j].pc \in {"get_frames", "get_context", "call_provider",
                                           "store_analysis"}}

\* the job has left the async with block: its locals are gone
JobEnded == NoJob

\* job record J when analyze_scene returns: "none" or "stored"
Returned(J, result, provider_error) ==
    [JobEnded EXCEPT !.provider_calls = J.provider_calls,
                     !.provider_error = provider_error, !.result = result]

\* async with self.semaphore: entered only with a free permit
AcquireNoWait(j) == j \in JobIds /\ jobs[j].pc = "acquire"
AcquirePermit(j) == j \in JobIds /\ jobs[j].pc = "acquire" /\ permits > 0

\* entering the block, then start_time = time.time()
JobAcquire(j) ==
    /\ AcquirePermit(j)
    /\ permits' = permits - 1
    /\ jobs' = [jobs EXCEPT ![j].pc = "get_frames", ![j].start_time = clock]
    /\ UNCHANGED <<settings, scene, camstate, cooldown, side_event, side_meta, events,
                   analyses, published, tasks, clock, stats, delivered, expiries,
                   evicted_max, dispatched, life>>

\* get_recent_frames(camera_id, limit=5, with_images=True); no frame: return None
JobGetFrames(j) ==
    LET J == jobs[j]
        frames == get_recent_frames(scene[J.camera_id], RecentLimit, TRUE) IN
    /\ j \in JobIds
    /\ J.pc = "get_frames"
    /\ IF Len(frames) = 0
       THEN /\ jobs' = [jobs EXCEPT ![j] = Returned(J, "none", FALSE)]
            /\ permits' = permits + 1
       ELSE /\ jobs' = [jobs EXCEPT ![j].pc = "get_context", ![j].frames = Len(frames)]
            /\ UNCHANGED permits
    /\ UNCHANGED <<settings, scene, camstate, cooldown, side_event, side_meta, events,
                   analyses, published, tasks, clock, stats, delivered, expiries,
                   evicted_max, dispatched, life>>

\* get_context_for_analysis: a read of the sorted set, used for the prompt
JobGetContext(j) ==
    /\ j \in JobIds
    /\ jobs[j].pc = "get_context"
    /\ jobs' = [jobs EXCEPT ![j].pc = "call_provider", ![j].provider_calls = @ + 1]
    /\ UNCHANGED <<settings, scene, camstate, cooldown, side_event, side_meta, events,
                   analyses, published, tasks, permits, clock, stats, delivered, expiries,
                   evicted_max, dispatched, life>>

\* duration_ms = int((time.time() - start_time) * 1000), the clock in seconds
Elapsed(start_time, now) == (now - start_time) * 1000

\* what a provider answers: a text, or a response without content / with
\* an empty text
Responses == {"text", "empty"}

\* summary = response.content[0].text if response.content else "No response"
\* (Gemini: response.text if response.text else "No response")
Summary(response) == IF response = "empty" THEN "No response" ELSE response

\* the provider answers: summary and duration are computed
JobProviderReplies(j) ==
    /\ j \in JobIds
    /\ jobs[j].pc = "call_provider"
    /\ \E response \in Responses :
          jobs' = [jobs EXCEPT ![j].pc = "store_analysis",
                               ![j].response = response,
                               ![j].summary = Summary(response),
                               ![j].duration_ms = Elapsed(jobs[j].start_time, clock)]
    /\ UNCHANGED <<settings, scene, camstate, cooldown, side_event, side_meta, events,
                   analyses, published, tasks, permits, clock, stats, delivered, expiries,
                   evicted_max, dispatched, life>>

\* the provider call raises and the permit stays taken
JobProviderFailsHoldingPermit(j) ==
    /\ j \in JobIds
    /\ jobs[j].pc = "call_provider"
    /\ jobs' = [jobs EXCEPT ![j] = Returned(jobs[j], "none", TRUE)]
    /\ UNCHANGED <<settings, scene, camstate, cooldown, side_event, side_meta, events,
                   analyses, published, tasks, permits, clock, stats, delivered, expiries,
                   evicted_max, dispatched, life>>

\* the provider call raises or times out: logged, return None
JobProviderFails(j) ==
    /\ j \in JobIds
    /\ jobs[j].pc = "call_provider"
    /\ jobs' = [jobs EXCEPT ![j] = Returned(jobs[j], "none", TRUE)]
    /\ permits' = permits + 1
    /\ UNCHANGED <<settings, scene, camstate, cooldown, side_event, side_meta, events,
                   analyses, published, tasks, clock, stats, delivered, expiries,
                   evicted_max, dispatched, life>>

\* Database.store_analysis, then the return and the release of the permit
JobStoreAnalysis(j) ==
    LET J == jobs[j] IN
    /\ j \in JobIds
    /\ J.pc = "store_analysis"
    /\ life.db # "closed"                   \* acquire() on a closed pool raises
    /\ analyses' = Append(analyses,
                          [camera_id |-> J.camera_id, trigger_event_id |-> J.event_id,
                           frames_analyzed |-> J.frames, duration_ms |-> J.duration_ms])
    /\ jobs' = [jobs EXCEPT ![j] = Returned(J, "stored", FALSE)]
    /\ permits' = permits + 1
    /\ UNCHANGED <<settings, scene, camstate, cooldown, side_event, side_meta, events,
                   published, tasks, clock, stats, delivered, expiries, evicted_max,
                   dispatched, life>>

JobStep(j) ==
    \/ JobAcquire(j)
    \/ JobGetFrames(j)
    \/ JobGetContext(j)
    \/ JobProviderReplies(j)
    \/ JobProviderFails(j)
    \/ JobStoreAnalysis(j)

(***************************************************************************)
(* Environment: the bus, key expiry, the wall clock                        *)
(***************************************************************************)
\* a new task takes the next task id
StartTask(limit, kind, pc, c, m, rid, ts, img) ==
    /\ delivered < limit
    /\ delivered' = delivered + 1
    /\ tasks' = [tasks EXCEPT ![delivered + 1] =
                   [IdleTask EXCEPT !.kind = kind, !.pc = pc, !.camera_id = c,
                                    !.metadata = m, !.request_id = rid,
                                    !.timestamp_us = ts, !.image_base64 = img]]

\* coroutines alive: handler tasks and analyses
Alive == Cardinality(InFlight) + Cardinality({j \in JobIds : jobs[j].pc # "done"})

\* a loop that awaits handle_message before it takes the next message
SpawnAwaited(kind, pc, c, m, rid, ts, img) ==
    /\ life.ingress = "running"
    /\ InFlight = {}
    /\ StartTask(MaxMsgs, kind, pc, c, m, rid, ts, img)
    /\ stats' = [stats EXCEPT !.messages_received = @ + 1]
    /\ UNCHANGED <<settings, scene, camstate, cooldown, side_event, side_meta, events,
                   analyses, published, jobs, permits, clock, expiries, evicted_max,
                   dispatched, life>>

\* MQTTHandler.start: a message is received and handle_message is spawned
Spawn(kind, pc, c, m, rid, ts, img) ==
    /\ life.ingress = "running"
    /\ Alive < MaxInFlight
    /\ StartTask(MaxMsgs, kind, pc, c, m, rid, ts, img)
    /\ stats' = [stats EXCEPT !.messages_received = @ + 1]
    /\ UNCHANGED <<settings, scene, camstate, cooldown, side_event, side_meta, events,
                   analyses, published, jobs, permits, clock, expiries, evicted_max,
                   dispatched, life>>

\* a message on axis-is/camera/{c}/metadata
DeliverMetadata(c, m) ==
    Spawn("handle_metadata", "am_zadd", c, m, NoneVal, NoneVal, NoneVal)

\* a message on axis-is/camera/{c}/frame answering a published request;
\* QoS 1 may deliver it more than once
DeliverFrame(c, rid, ts) ==
    /\ \E i \in 1..Len(published) :
          published[i].camera_id = c /\ published[i].request_id = rid
    /\ Spawn("handle_frame", "af_read", c, NoMetadata, rid, ts, 1)

\* a POST /cameras/{c}/request-frame arrives
ManualFrameRequest(c) ==
    /\ life.pc = "serving"
    /\ Alive < MaxInFlight
    /\ StartTask(MaxMsgs, "manual_frame_request", "mr_get_state", c, NoMetadata,
                 NoneVal, NoneVal, NoneVal)
    /\ UNCHANGED <<settings, scene, camstate, cooldown, side_event, side_meta, events,
                   analyses, published, jobs, permits, clock, stats, expiries, evicted_max,
                   dispatched, life>>

\* a message on axis-is/camera/{c}/status: handle_status writes the status
\* fields into camera:{c}:state (HSET leaves the other fields)
HandleStatus(c) ==
    /\ life.ingress = "running"
    /\ delivered < MaxMsgs
    /\ delivered' = delivered + 1
    /\ camstate' = [camstate EXCEPT
                      ![c] = set_camera_state(@, "status", Online, status_ttl)]
    /\ stats' = [stats EXCEPT !.messages_received = @ + 1]
    /\ UNCHANGED <<settings, scene, cooldown, side_event, side_meta, events, analyses,
                   published, tasks, jobs, permits, clock, expiries, evicted_max,
                   dispatched, life>>

\* TTL of camera:{id}:last_request
ExpireCooldown(c) ==
    /\ expiries < MaxExpiries
    /\ expiries' = expiries + 1
    /\ cooldown[c]
    /\ cooldown' = [cooldown EXCEPT ![c] = FALSE]
    /\ tasks' = [u \in TaskIds |->
                   IF u \in WindowWriters(c) THEN [tasks[u] EXCEPT !.window_open = FALSE]
                   ELSE tasks[u]]
    /\ UNCHANGED <<settings, scene, camstate, side_event, side_meta, events, analyses,
                   published, jobs, permits, clock, stats, delivered, evicted_max,
                   dispatched, life>>

\* TTL of camera:{id}:state
ExpireCameraState(c) ==
    /\ expiries < MaxExpiries
    /\ expiries' = expiries + 1
    /\ camstate[c] # NoState
    /\ camstate' = [camstate EXCEPT ![c] = NoState]
    /\ UNCHANGED <<settings, scene, cooldown, side_event, side_meta, events, analyses,
                   published, tasks, jobs, permits, clock, stats, delivered, evicted_max,
                   dispatched, life>>

\* TTL (300 s) of frame_request:{id}:event_id
ExpireSideEvent(r) ==
    /\ expiries < MaxExpiries
    /\ expiries' = expiries + 1
    /\ side_event[r] # NoneVal
    /\ side_event' = [side_event EXCEPT ![r] = NoneVal]
    /\ UNCHANGED <<settings, scene, camstate, cooldown, side_meta, events, analyses,
                   published, tasks, jobs, permits, clock, stats, delivered, evicted_max,
                   dispatched, life>>

\* TTL of frame_request:{id}:metadata: written after the event_id key with
\* the same TTL, it outlives it and then follows it
ExpireSideMeta(r) ==
    /\ side_meta[r] # NoMetadata
    /\ side_event[r] = NoneVal
    /\ side_meta' = [side_meta EXCEPT ![r] = NoMetadata]
    /\ UNCHANGED <<settings, scene, camstate, cooldown, side_event, events, analyses,
                   published, tasks, jobs, permits, clock, stats, delivered, expiries,
                   evicted_max, dispatched, life>>

\* time passes
Tick ==
    /\ clock < MaxClock
    /\ clock' = clock + 1
    /\ UNCHANGED <<settings, scene, camstate, cooldown, side_event, side_meta, events,
                   analyses, published, tasks, jobs, permits, stats, delivered, expiries,
                   evicted_max, dispatched, life>>

\* the system clock is set back (time.time() is the wall clock)
ClockSetBack ==
    /\ clock > 0
    /\ clock' \in 0..(clock - 1)
    /\ UNCHANGED <<settings, scene, camstate, cooldown, side_event, side_meta, events,
                   analyses, published, tasks, jobs, permits, stats, delivered, expiries,
                   evicted_max, dispatched, life>>

(***************************************************************************)
(* Spec: the pipeline from startup                                         *)
(***************************************************************************)
\* the metadata messages the cameras send: a truck in high motion, and two
\* quiet scenes
BusMetadata ==
    {Metadata(StampUnit, 1, 90, NoneVal, <<[class_id |-> 7, confidence |-> 80]>>),
     Metadata(2 * StampUnit, 2, 10, 1, <<>>),
     Metadata(2 * StampUnit, 2, 10, 2, <<>>)}

Next ==
    \/ \E c \in Cameras, m \in BusMetadata : DeliverMetadata(c, m)
    \/ \E c \in Cameras, r \in RequestIds, ts \in Stamps : DeliverFrame(c, r, ts)
    \/ \E c \in Cameras : HandleStatus(c) \/ ManualFrameRequest(c)
    \/ \E t \in TaskIds : SceneStep(t) \/ TriggerStep(t) \/ MetadataStep(t) \/ FrameStep(t)
    \/ \E t \in TaskIds : ManualStep(t)
    \/ \E j \in JobSlots : JobStep(j)
    \/ \E c \in Cameras : ExpireSceneMemory(c) \/ ExpireCooldown(c) \/ ExpireCameraState(c)
    \/ \E r \in RequestIds : ExpireSideEvent(r) \/ ExpireSideMeta(r)

Spec == Init /\ [][Next]_vars

(***************************************************************************)
(* SpecRace: metadata messages only, up to MaxRace of them handled at the  *)
(* same time, with the cooldown mark expiring                              *)
(***************************************************************************)
DeliverRacing(c, m) ==
    /\ Cardinality(InFlight) < MaxRace
    /\ StartTask(MaxRace, "handle_metadata", "am_zadd", c, m, NoneVal, NoneVal, NoneVal)
    /\ stats' = [stats EXCEPT !.messages_received = @ + 1]
    /\ UNCHANGED <<settings, scene, camstate, cooldown, side_event, side_meta, events,
                   analyses, published, jobs, permits, clock, expiries, evicted_max,
                   dispatched, life>>

NextRace ==
    \/ \E c \in Cameras, m \in BusMetadata : DeliverRacing(c, m)
    \/ \E t \in TaskIds : AddMetadataZadd(t) \/ AddMetadataTrim(t)
    \/ \E t \in TaskIds : TriggerStep(t) \/ MetadataStep(t)
    \/ \E c \in Cameras : ExpireCooldown(c)

SpecRace == Init /\ [][NextRace]_vars

(***************************************************************************)
(* SpecMem: scene memory driven by direct calls of add_metadata and        *)
(* add_frame_image, sequential or overlapping                              *)
(***************************************************************************)
MemMetadata == {Metadata(ts, 1, 10, NoneVal, <<>>) : ts \in Stamps \cup {0}}

CallAddMetadata(c, m) ==
    /\ Cardinality(InFlight) < MaxInFlight
    /\ StartTask(MaxCalls, "add_metadata", "am_zadd", c, m, NoneVal, NoneVal, NoneVal)
    /\ UNCHANGED <<settings, scene, camstate, cooldown, side_event, side_meta, events,
                   analyses, published, jobs, permits, clock, stats, expiries, evicted_max,
                   dispatched, life>>

CallAddFrameImage(c, rid, ts) ==
    /\ Cardinality(InFlight) < MaxInFlight
    /\ StartTask(MaxCalls, "add_frame_image", "af_read", c, NoMetadata, rid, ts, 1)
    /\ UNCHANGED <<settings, scene, camstate, cooldown, side_event, side_meta, events,
                   analyses, published, jobs, permits, clock, stats, expiries, evicted_max,
                   dispatched, life>>

NextMem ==
    \/ \E c \in Cameras, m \in MemMetadata : CallAddMetadata(c, m)
    \/ \E c \in Cameras, ts \in Stamps : CallAddFrameImage(c, 1, ts)
    \/ \E t \in TaskIds : SceneStep(t)
    \/ \E c \in Cameras : ExpireSceneMemory(c)

SpecMem == Init /\ [][NextMem]_vars

(***************************************************************************)
(* SpecStamp: metadata and frame messages whose timestamp_us is missing,   *)
(* zero, negative or positive, as far as scene memory                      *)
(***************************************************************************)
AnyStamps == Stamps \cup {NoneVal, 0, -StampUnit}

StampMetadata == {Metadata(ts, 1, 10, NoneVal, <<>>) : ts \in AnyStamps}

\* handle_frame up to its call of add_frame_image: a frame without
\* timestamp_us is dropped by "if not all([...])"
HandleFrameCheck(c, rid, ts) ==
    /\ Cardinality(InFlight) < MaxInFlight
    /\ StartTask(MaxCalls, "add_frame_image", IF Truthy(ts) THEN "af_read" ELSE "done",
                 c, NoMetadata, rid, ts, 1)
    /\ UNCHANGED <<settings, scene, camstate, cooldown, side_event, side_meta, events,
                   analyses, published, jobs, permits, clock, stats, expiries, evicted_max,
                   dispatched, life>>

NextStamp ==
    \/ \E c \in Cameras, m \in StampMetadata : CallAddMetadata(c, m)
    \/ \E c \in Cameras, ts \in AnyStamps : HandleFrameCheck(c, 1, ts)
    \/ \E t \in TaskIds : SceneStep(t)

SpecStamp == Init /\ [][NextStamp]_vars

(***************************************************************************)
(* SpecContext: get_context_for_analysis called on scene memories of every *)
(* size up to MaxOver entries more than it reads; a set of n entries is    *)
(* what a service configured with scene_memory_frames = n leaves in Redis  *)
(***************************************************************************)
RingOf(n) == {MetadataEntry(Metadata(StampUnit * k, k, 10, NoneVal, <<>>)) : k \in 1..n}

InitContext ==
    /\ scene \in [Cameras -> {RingOf(n) : n \in 0..(ContextLimit + MaxOver)}]
    /\ settings = DefaultSettings
    /\ camstate = [c \in Cameras |-> NoState]
    /\ cooldown = [c \in Cameras |-> FALSE]
    /\ side_event = [r \in RequestIds |-> NoneVal]
    /\ side_meta = [r \in RequestIds |-> NoMetadata]
    /\ events = <<>>
    /\ analyses = <<>>
    /\ published = <<>>
    /\ tasks = [t \in TaskIds |-> IdleTask]
    /\ jobs = <<>>
    /\ permits = max_concurrent_analyses
    /\ clock = 0
    /\ stats = [messages_received |-> 0, frame_requests_sent |-> 0, analyses_triggered |-> 0]
    /\ delivered = 0
    /\ expiries = 0
    /\ evicted_max = [c \in Cameras |-> NoneVal]
    /\ dispatched = <<>>
    /\ life = LifeServing

\* one call of get_context_for_analysis (a single read)
CallGetContext(c) ==
    /\ delivered < MaxCalls
    /\ delivered' = delivered + 1
    /\ tasks' = [tasks EXCEPT ![delivered + 1] =
                   [IdleTask EXCEPT !.kind = "get_context_for_analysis", !.pc = "done",
                                    !.camera_id = c,
                                    !.frames_available =
                                        get_context_for_analysis(scene[c]).frames_available]]
    /\ UNCHANGED <<settings, scene, camstate, cooldown, side_event, side_meta, events,
                   analyses, published, jobs, permits, clock, stats, expiries, evicted_max,
                   dispatched, life>>

NextContext == \E c \in Cameras : CallGetContext(c)

SpecContext == InitContext /\ [][NextContext]_vars

(***************************************************************************)
(* SpecMerge: add_frame_image called, sequentially or overlapping, on      *)
(* scene memories that earlier add_metadata calls have filled              *)
(***************************************************************************)
\* the sets add_metadata calls leave behind: at most scene_memory_frames
\* metadata entries with distinct timestamps
MetadataSets ==
    {S \in SUBSET {MetadataEntry(m) : m \in {x \in MemMetadata : x.timestamp_us # 0}} :
        Cardinality(S) <= scene_memory_frames}

InitMerge ==
    /\ settings = DefaultSettings
    /\ scene \in [Cameras -> MetadataSets]
    /\ camstate = [c \in Cameras |-> NoState]
    /\ cooldown = [c \in Cameras |-> FALSE]
    /\ side_event = [r \in RequestIds |-> NoneVal]
    /\ side_meta = [r \in RequestIds |-> NoMetadata]
    /\ events = <<>>
    /\ analyses = <<>>
    /\ published = <<>>
    /\ tasks = [t \in TaskIds |-> IdleTask]
    /\ jobs = <<>>
    /\ permits = max_concurrent_analyses
    /\ clock = 0
    /\ stats = [messages_received |-> 0, frame_requests_sent |-> 0, analyses_triggered |-> 0]
    /\ delivered = 0
    /\ expiries = 0
    /\ evicted_max = [c \in Cameras |-> NoneVal]
    /\ dispatched = <<>>
    /\ life = LifeServing

NextMerge ==
    \/ \E c \in Cameras, ts \in Stamps : CallAddFrameImage(c, 1, ts)
    \/ \E t \in TaskIds : AddFrameImageRead(t) \/ AddFrameImageZadd(t) \/ AddFrameImageTrim(t)

SpecMerge == InitMerge /\ [][NextMerge]_vars

(***************************************************************************)
(* SpecEvict: add_frame_image called on scene memories whose entries may   *)
(* all be later than the frame by more than the tolerance                  *)
(***************************************************************************)
\* the full sets add_metadata calls leave behind, over timestamps up to two
\* tolerances after the earliest frame
LaterSets ==
    LET LaterStamps == {StampUnit * k : k \in 1..(MaxStamp + 2)}
    IN {S \in SUBSET {MetadataEntry(Metadata(ts, 1, 10, NoneVal, <<>>)) : ts \in LaterStamps} :
           Cardinality(S) = scene_memory_frames}

InitEvict ==
    /\ settings = DefaultSettings
    /\ scene \in [Cameras -> LaterSets]
    /\ camstate = [c \in Cameras |-> NoState]
    /\ cooldown = [c \in Cameras |-> FALSE]
    /\ side_event = [r \in RequestIds |-> NoneVal]
    /\ side_meta = [r \in RequestIds |-> NoMetadata]
    /\ events = <<>>
    /\ analyses = <<>>
    /\ published = <<>>
    /\ tasks = [t \in TaskIds |-> IdleTask]
    /\ jobs = <<>>
    /\ permits = max_concurrent_analyses
    /\ clock = 0
    /\ stats = [messages_received |-> 0, frame_requests_sent |-> 0, analyses_triggered |-> 0]
    /\ delivered = 0
    /\ expiries = 0
    /\ evicted_max = [c \in Cameras |-> NoneVal]
    /\ dispatched = <<>>
    /\ life = LifeServing

\* every call carries the request id of its own request
NextEvict ==
    \/ \E c \in Cameras, ts \in Stamps : CallAddFrameImage(c, delivered + 1, ts)
    \/ \E t \in TaskIds : AddFrameImageRead(t) \/ AddFrameImageZadd(t) \/ AddFrameImageTrim(t)

SpecEvict == InitEvict /\ [][NextEvict]_vars

(***************************************************************************)
(* SpecTrig: should_request_frame called on its own, one call at a time,   *)
(* for every setting of the flags, cooldown mark and stored hash           *)
(***************************************************************************)
Hashes == {1, 2}

TrigDetections ==
    {<<>>,
     <<[class_id |-> 2, confidence |-> 50]>>,
     <<[class_id |-> 0, confidence |-> 90], [class_id |-> 7, confidence |-> 51]>>,
     <<[class_id |-> 5, confidence |-> 60], [class_id |-> 2, confidence |-> 80]>>}

TrigMetadata ==
    {Metadata(StampUnit, 1, motion, hash, dets) :
        motion \in {NoneVal, 70, 71}, hash \in {NoneVal, 0} \cup Hashes,
        dets \in TrigDetections}

\* the states a camera's key can be in: no key, a status only, a hash only,
\* or both, written in either order
StoredStates ==
    {NoState, set_camera_state(NoState, "status", Online, status_ttl)}
    \cup {WriteHash(st, h) : st \in {NoState, set_camera_state(NoState, "status", Online, status_ttl)},
                             h \in Hashes}
    \cup {set_camera_state(WriteHash(NoState, h), "status", Online, status_ttl) : h \in Hashes}

InitTrig ==
    /\ settings \in [frame_request_enabled : BOOLEAN, scene_change_enabled : BOOLEAN,
                     ai_provider : {"claude"}, api_key : {TRUE}]
    /\ scene = [c \in Cameras |-> {}]
    /\ camstate \in [Cameras -> StoredStates]
    /\ cooldown \in [Cameras -> BOOLEAN]
    /\ side_event = [r \in RequestIds |-> NoneVal]
    /\ side_meta = [r \in RequestIds |-> NoMetadata]
    /\ events = <<>>
    /\ analyses = <<>>
    /\ published = <<>>
    /\ tasks = [t \in TaskIds |-> IdleTask]
    /\ jobs = <<>>
    /\ permits = max_concurrent_analyses
    /\ clock = 0
    /\ stats = [messages_received |-> 0, frame_requests_sent |-> 0, analyses_triggered |-> 0]
    /\ delivered = 0
    /\ expiries = 0
    /\ evicted_max = [c \in Cameras |-> NoneVal]
    /\ dispatched = <<>>
    /\ life = LifeServing

CallShouldRequestFrame(c, m) ==
    /\ InFlight = {}
    /\ delivered < MaxEvals
    /\ delivered' = delivered + 1
    /\ tasks' = [tasks EXCEPT ![delivered + 1] =
                   [IdleTask EXCEPT !.kind = "should_request_frame",
                                    !.pc = "check_cooldown", !.camera_id = c,
                                    !.metadata = m,
                                    !.hash_at_call = camstate[c].last_scene_hash]]
    /\ UNCHANGED <<settings, scene, camstate, cooldown, side_event, side_meta, events,
                   analyses, published, jobs, permits, clock, stats, expiries, evicted_max,
                   dispatched, life>>

NextTrig ==
    \/ \E c \in Cameras, m \in TrigMetadata : CallShouldRequestFrame(c, m)
    \/ \E t \in TaskIds : TriggerStep(t)

SpecTrig == InitTrig /\ [][NextTrig]_vars

(***************************************************************************)
(* SpecScene: should_request_frame called several times, one call at a     *)
(* time, with cooldown inactive, triggers enabled and messages that have   *)
(* low motion and no detection                                             *)
(***************************************************************************)
SceneMetadata == {Metadata(StampUnit, 1, 10, hash, <<>>) : hash \in {NoneVal, 0} \cup Hashes}

CallShouldRequestFrameNext(c, m) ==
    /\ InFlight = {}
    /\ delivered < MaxCalls
    /\ delivered' = delivered + 1
    /\ tasks' = [tasks EXCEPT ![delivered + 1] =
                   [IdleTask EXCEPT !.kind = "should_request_frame",
                                    !.pc = "check_cooldown", !.camera_id = c,
                                    !.metadata = m,
                                    !.hash_at_call = camstate[c].last_scene_hash]]
    /\ UNCHANGED <<settings, scene, camstate, cooldown, side_event, side_meta, events,
                   analyses, published, jobs, permits, clock, stats, expiries, evicted_max,
                   dispatched, life>>

NextScene ==
    \/ \E c \in Cameras, m \in SceneMetadata : CallShouldRequestFrameNext(c, m)
    \/ \E t \in TaskIds : TriggerStep(t)

SpecScene == Init /\ [][NextScene]_vars

(***************************************************************************)
(* SpecStatus: should_request_frame called one call at a time as in        *)
(* SpecScene, with status messages and time passing between the calls      *)
(***************************************************************************)
\* a camera's key one step of the clock later, a step taking TickSeconds
\* seconds: Redis removes the key with all its fields when its TTL has run out
Aged(state) ==
    LET TickSeconds == status_ttl \div 2
        Later(n) == IF n <= TickSeconds THEN 0 ELSE n - TickSeconds
        gone == Later(state.ttl) = 0
        forgotten == Later(state.hash_ttl) = 0
    IN [last_scene_hash |-> IF gone THEN NoneVal ELSE state.last_scene_hash,
        status |-> IF gone THEN NoneVal ELSE state.status,
        ttl |-> Later(state.ttl),
        written |-> IF forgotten THEN NoneVal ELSE state.written,
        hash_ttl |-> Later(state.hash_ttl)]

\* one step of the clock between two calls (a call takes far less)
TickCameraState ==
    /\ InFlight = {}
    /\ \E c \in Cameras : camstate[c] # Aged(camstate[c])
    /\ camstate' = [c \in Cameras |-> Aged(camstate[c])]
    /\ UNCHANGED <<settings, scene, cooldown, side_event, side_meta, events, analyses,
                   published, tasks, jobs, permits, clock, stats, delivered, expiries,
                   evicted_max, dispatched, life>>

\* a status message handled between two calls
StatusBetweenCalls(c) == InFlight = {} /\ HandleStatus(c)

NextStatus ==
    \/ \E c \in Cameras, m \in SceneMetadata : CallShouldRequestFrameNext(c, m)
    \/ \E t \in TaskIds : TriggerStep(t)
    \/ \E c \in Cameras : StatusBetweenCalls(c)
    \/ TickCameraState

SpecStatus == Init /\ [][NextStatus]_vars

(***************************************************************************)
(* SpecDispatch: the service after every camera has reported its status   *)
(* and MaxJobs high-motion messages have led to frame requests that are    *)
(* still outstanding; the frames arrive and the analyses run               *)
(***************************************************************************)
\* the request made for the r-th high-motion message
CamOf(r) == ((r - 1) % NumCameras) + 1
MetaOf(r) == Metadata(StampUnit * r, r, 90, NoneVal, <<>>)
Outstanding == 1..MaxJobs

InitDispatched(cfg) ==
    /\ settings = cfg
    /\ scene = [c \in Cameras |->
                  TrimSceneMemory({MetadataEntry(MetaOf(r)) : r \in {x \in Outstanding : CamOf(x) = c}})]
    /\ camstate = [c \in Cameras |-> set_camera_state(NoState, "status", Online, status_ttl)]
    /\ cooldown = [c \in Cameras |-> \E r \in Outstanding : CamOf(r) = c]
    /\ side_event = [r \in RequestIds |-> IF r \in Outstanding THEN r ELSE NoneVal]
    /\ side_meta = [r \in RequestIds |-> IF r \in Outstanding THEN MetaOf(r) ELSE NoMetadata]
    /\ events = [r \in Outstanding |->
                   [id |-> r, camera_id |-> CamOf(r), timestamp_us |-> MetaOf(r).timestamp_us]]
    /\ analyses = <<>>
    /\ published = [r \in Outstanding |->
                      [camera_id |-> CamOf(r), request_id |-> r, reason |-> "high_motion",
                       timestamp |-> MetaOf(r).timestamp_us, event_id |-> r,
                       trigger_metadata |-> MetaOf(r), side_written |-> 2,
                       mark_at_check |-> FALSE,
                       mark_at_publish |-> FALSE,
                       in_window_of |-> {}]]
    /\ tasks = [t \in TaskIds |->
                  IF t \in Outstanding
                  THEN [IdleTask EXCEPT !.kind = "handle_metadata", !.pc = "done",
                                        !.camera_id = CamOf(t), !.should_request = TRUE,
                                        !.reason = "high_motion"]
                  ELSE IdleTask]
    /\ jobs = <<>>
    /\ permits = max_concurrent_analyses
    /\ clock = 0
    /\ stats = [messages_received |-> MaxJobs + NumCameras, frame_requests_sent |-> MaxJobs,
                analyses_triggered |-> 0]
    /\ delivered = MaxJobs
    /\ expiries = 0
    /\ evicted_max = [c \in Cameras |->
                        LET all == {MetadataEntry(MetaOf(r)) : r \in {x \in Outstanding : CamOf(x) = c}}
                        IN EvictedMax(NoneVal, all, TrimSceneMemory(all))]
    /\ dispatched = <<>>
    /\ life = LifeServing

\* the frame answering request r arrives, once, while no other frame is
\* being handled
DeliverRequestedFrame(r) ==
    /\ InFlight = {}
    /\ \A t \in TaskIds : tasks[t].kind = "handle_frame" => tasks[t].request_id # r
    /\ StartTask(2 * MaxJobs, "handle_frame", "af_read", CamOf(r), NoMetadata, r,
                 MetaOf(r).timestamp_us, 1)
    /\ stats' = [stats EXCEPT !.messages_received = @ + 1]
    /\ UNCHANGED <<settings, scene, camstate, cooldown, side_event, side_meta, events,
                   analyses, published, jobs, permits, clock, expiries, evicted_max,
                   dispatched, life>>

InitDispatch == InitDispatched(DefaultSettings)

NextDispatch ==
    \/ \E r \in Outstanding : DeliverRequestedFrame(r)
    \/ \E t \in TaskIds : AddFrameImageRead(t) \/ AddFrameImageZadd(t) \/ AddFrameImageTrim(t)
    \/ \E t \in TaskIds : FrameStep(t)
    \/ \E j \in JobSlots : JobStep(j)
    \/ \E c \in Cameras : ExpireSceneMemory(c)

SpecDispatch == InitDispatch /\ [][NextDispatch]_vars

\* SpecDup: the frames arrive as QoS 1 delivers them: possibly twice, and
\* handled by overlapping tasks; a manual request may be made as well
FrameStamp(r) == IF r \in Outstanding THEN MetaOf(r).timestamp_us ELSE StampUnit

DeliverFrameAgain(r) ==
    /\ Alive < MaxInFlight
    /\ \E i \in 1..Len(published) :
          /\ published[i].request_id = r
          /\ StartTask(MaxJobs + MaxMsgs, "handle_frame", "af_read",
                       published[i].camera_id, NoMetadata, r, FrameStamp(r), 1)
    /\ stats' = [stats EXCEPT !.messages_received = @ + 1]
    /\ UNCHANGED <<settings, scene, camstate, cooldown, side_event, side_meta, events,
                   analyses, published, jobs, permits, clock, expiries, evicted_max,
                   dispatched, life>>

ManualFrameRequestLater(c) ==
    /\ Alive < MaxInFlight
    /\ StartTask(MaxJobs + MaxMsgs, "manual_frame_request", "mr_get_state", c,
                 NoMetadata, NoneVal, NoneVal, NoneVal)
    /\ UNCHANGED <<settings, scene, camstate, cooldown, side_event, side_meta, events,
                   analyses, published, jobs, permits, clock, stats, expiries, evicted_max,
                   dispatched, life>>

NextDup ==
    \/ \E r \in RequestIds : DeliverFrameAgain(r)
    \/ \E c \in Cameras : ManualFrameRequestLater(c)
    \/ \E t \in TaskIds : AddFrameImageRead(t) \/ AddFrameImageZadd(t) \/ AddFrameImageTrim(t)
    \/ \E t \in TaskIds : FrameStep(t) \/ ManualStep(t) \/ RequestStep(t)
    \/ \E j \in JobSlots : JobStep(j)
    \/ \E c \in Cameras : ExpireCooldown(c)

SpecDup == InitDispatch /\ [][NextDup]_vars

\* SpecLive: SpecDispatch for either provider, with the steps the event loop
\* and the stores guarantee.  A waiter of asyncio.Semaphore is woken in FIFO
\* order whenever a permit is returned; the store calls return; the Claude
\* call is given timeout=settings.claude_timeout, the Gemini call runs in
\* the executor with no timeout.
InitLive == \E p \in Providers : InitDispatched([DefaultSettings EXCEPT !.ai_provider = p])

\* the per-call timeout of the provider call ends it
ProviderTimeout(j) == settings.ai_provider = "claude" /\ JobProviderFails(j)

\* SpecDispatch runs at most MaxJobs analyses
Fairness ==
    \A j \in 1..MaxJobs :
        /\ SF_vars(JobAcquire(j))
        /\ WF_vars(JobGetFrames(j))
        /\ WF_vars(JobGetContext(j))
        /\ WF_vars(ProviderTimeout(j))
        /\ WF_vars(JobStoreAnalysis(j))

SpecLive == InitLive /\ [][NextDispatch]_vars /\ Fairness

\* SpecClock: the analyses of the first MaxTimed requests with the wall
\* clock moving
NextClock ==
    \/ \E r \in 1..MaxTimed : DeliverRequestedFrame(r)
    \/ \E t \in TaskIds : AddFrameImageRead(t) \/ AddFrameImageZadd(t) \/ AddFrameImageTrim(t)
    \/ \E t \in TaskIds : FrameStep(t)
    \/ \E j \in JobSlots : JobStep(j)
    \/ \E c \in Cameras : ExpireSceneMemory(c)
    \/ Tick
    \/ ClockSetBack

SpecClock == InitDispatch /\ [][NextClock]_vars

(***************************************************************************)
(* SpecLife: main.lifespan from process start to the end of shutdown, the  *)
(* ingress task it creates, and the handlers that task spawns              *)
(***************************************************************************)
\* the process before lifespan runs
LifeStart ==
    [pc |-> "db_pool", db |-> "none", redis |-> "none", bus |-> "none", running |-> FALSE,
     ingress |-> "none", error |-> "", agent |-> "none", log |-> <<>>]

InitLifeUnder(cfg) ==
    /\ settings = cfg
    /\ scene = [c \in Cameras |-> {}]
    /\ camstate = [c \in Cameras |-> NoState]
    /\ cooldown = [c \in Cameras |-> FALSE]
    /\ side_event = [r \in RequestIds |-> NoneVal]
    /\ side_meta = [r \in RequestIds |-> NoMetadata]
    /\ events = <<>>
    /\ analyses = <<>>
    /\ published = <<>>
    /\ tasks = [t \in TaskIds |-> IdleTask]
    /\ jobs = <<>>
    /\ permits = max_concurrent_analyses
    /\ clock = 0
    /\ stats = [messages_received |-> 0, frame_requests_sent |-> 0, analyses_triggered |-> 0]
    /\ delivered = 0
    /\ expiries = 0
    /\ evicted_max = [c \in Cameras |-> NoneVal]
    /\ dispatched = <<>>
    /\ life = LifeStart

InitLife == InitLifeUnder(DefaultSettings)

\* a step of lifespan or of the ingress task: only life changes
LifeStep(new) ==
    /\ life' = new
    /\ UNCHANGED <<settings, scene, camstate, cooldown, side_event, side_meta, events,
                   analyses, published, tasks, jobs, permits, clock, stats, delivered,
                   expiries, evicted_max, dispatched>>

\* an exception in the try block of lifespan: the finally block runs next
\* and the exception is raised again when it ends
Raised(L, error) == [L EXCEPT !.error = error, !.pc = "stop"]

\* lifespan step L.pc is done: it is logged and lifespan moves to pc
Done(L, pc) == [L EXCEPT !.log = Append(@, L.pc), !.pc = pc]

\* Database.connect: asyncpg.create_pool, assigned to self.pool
DbCreatePool ==
    /\ life.pc = "db_pool"
    /\ LifeStep([Done(life, "db_schema") EXCEPT !.db = "open"])

\* create_pool, from_url or a subscribe raises
StartupStepFails ==
    /\ life.pc \in {"db_pool", "redis_connect", "mqtt_subscribe"}
    /\ LifeStep(Raised(life, life.pc))

\* Database.connect: create_schema
DbCreateSchema ==
    /\ life.pc = "db_schema"
    /\ LifeStep(Done(life, "redis_connect"))

\* a schema bootstrap that fails and lets lifespan go on
DbCreateSchemaFailsIgnored ==
    /\ life.pc = "db_schema"
    /\ LifeStep([life EXCEPT !.error = "db_schema", !.pc = "redis_connect"])

DbCreateSchemaFails ==
    /\ life.pc = "db_schema"
    /\ LifeStep(Raised(life, "db_schema"))

\* RedisCache.connect
RedisConnect ==
    /\ life.pc = "redis_connect"
    /\ LifeStep([Done(life, "mqtt_connect") EXCEPT !.redis = "open"])

\* MQTTHandler.connect: Client(...) assigned to self.client, then __aenter__
MqttConnect ==
    /\ life.pc = "mqtt_connect"
    /\ LifeStep([Done(life, "mqtt_subscribe") EXCEPT !.bus = "open"])

\* __aenter__ raises: self.client is a client that was never entered
MqttConnectFails ==
    /\ life.pc = "mqtt_connect"
    /\ LifeStep([Raised(life, "mqtt_connect") EXCEPT !.bus = "created"])

\* MQTTHandler.connect: subscribe_to_cameras
MqttSubscribe ==
    /\ life.pc = "mqtt_subscribe"
    /\ LifeStep(Done(life, "create_task"))

\* mqtt_task = asyncio.create_task(mqtt_handler.start()), then the yield
CreateIngressTask ==
    /\ life.pc = "create_task"
    /\ LifeStep([Done(life, "serving") EXCEPT !.ingress = "created"])

\* MQTTHandler.start begins: self.running = True, then it waits on
\* self.client.messages
IngressStarts ==
    /\ life.ingress = "created"
    /\ LifeStep([life EXCEPT !.ingress = "running", !.running = TRUE])

\* the connection is lost: the iteration over self.client.messages raises,
\* start logs "MQTT loop error" and raises again
IngressFails ==
    /\ life.ingress = "running"
    /\ LifeStep([life EXCEPT !.ingress = "error", !.bus = "lost"])

\* the application is told to shut down: the finally block of lifespan
ShutdownBegins ==
    /\ life.pc = "serving"
    /\ LifeStep([life EXCEPT !.pc = "stop"])

\* await mqtt_handler.stop() and, if 'mqtt_task' in locals(), mqtt_task.cancel():
\* stop has no await in it, so nothing runs between the two; cancel() leaves
\* a task that has ended as it is
StopAndCancel ==
    /\ life.pc = "stop"
    /\ LifeStep(IF life.ingress = "none"
                THEN [Done(life, "mqtt_disconnect") EXCEPT !.running = FALSE]
                ELSE [Done(life, "await_task") EXCEPT !.running = FALSE,
                                                     !.log = Append(@, "cancel"),
                                                     !.ingress = IF @ = "error" THEN @ ELSE "cancelling"])

\* the cancelled task runs: CancelledError is raised at its await and start
\* catches it ("MQTT loop cancelled"); a task that never started is cancelled
\* without running
IngressCancelled ==
    /\ life.ingress = "cancelling"
    /\ LifeStep([life EXCEPT !.ingress = "cancelled"])

\* await mqtt_task returns, or raises CancelledError, which is passed over
AwaitTask ==
    /\ life.pc = "await_task"
    /\ life.ingress = "cancelled"
    /\ LifeStep([life EXCEPT !.pc = "mqtt_disconnect"])

\* await mqtt_task raises the error start ended with: it leaves the finally
\* block
AwaitTaskRaises ==
    /\ life.pc = "await_task"
    /\ life.ingress = "error"
    /\ LifeStep([life EXCEPT !.pc = "ended", !.error = "mqtt_loop"])

\* a disconnect, after which lifespan is at pc: "if self.<client>:" passes
\* over a client never created, any other is closed
Closed(L, client, pc) ==
    IF L[client] = "none" THEN [L EXCEPT !.pc = pc]
    ELSE [Done(L, pc) EXCEPT ![client] = "closed"]

\* a bus close that ends the shutdown
MqttDisconnectEndsShutdown ==
    /\ life.pc = "mqtt_disconnect"
    /\ LifeStep(Closed(life, "bus", "ended"))

\* MQTTHandler.disconnect
MqttDisconnect ==
    /\ life.pc = "mqtt_disconnect"
    /\ LifeStep(Closed(life, "bus", "redis_disconnect"))

\* RedisCache.disconnect
RedisDisconnect ==
    /\ life.pc = "redis_disconnect"
    /\ LifeStep(Closed(life, "redis", "db_disconnect"))

\* Database.disconnect; lifespan ends, raising life.error if there is one
DbDisconnect ==
    /\ life.pc = "db_disconnect"
    /\ LifeStep(Closed(life, "db", "ended"))

LifespanStep ==
    \/ DbCreatePool \/ DbCreateSchema \/ DbCreateSchemaFails
    \/ RedisConnect
    \/ MqttConnect \/ MqttConnectFails
    \/ MqttSubscribe
    \/ StartupStepFails
    \/ CreateIngressTask
    \/ ShutdownBegins
    \/ StopAndCancel
    \/ AwaitTask \/ AwaitTaskRaises
    \/ MqttDisconnect
    \/ RedisDisconnect
    \/ DbDisconnect

IngressStep == IngressStarts \/ IngressFails \/ IngressCancelled

\* a message as the bus delivers it: the number of '/'-separated parts of
\* its topic, the part after the camera id, whether its payload parses as
\* JSON and, if it does, the fields the handlers read
Message(segments, topic_type, json_ok, m, rid, ts, img) ==
    [segments |-> segments, topic_type |-> topic_type, json_ok |-> json_ok,
     metadata |-> m, request_id |-> rid, timestamp_us |-> ts, image_base64 |-> img]

\* the messages received: topics that end before the topic type, payloads
\* that json.loads rejects, frame payloads with any of the three fields
\* present or missing, and a metadata and a status message that are well
\* formed
RawMessages ==
    {Message(n, "none", TRUE, NoMetadata, NoneVal, NoneVal, NoneVal) : n \in {2, 3}}
    \cup {Message(4, type, FALSE, NoMetadata, NoneVal, NoneVal, NoneVal) :
              type \in {"metadata", "frame", "status"}}
    \cup {Message(4, "frame", TRUE, NoMetadata, rid, ts, img) :
              rid \in {NoneVal, 1}, ts \in {NoneVal, StampUnit}, img \in {NoneVal, 1}}
    \cup {Message(4, "metadata", TRUE, Metadata(StampUnit, 1, 10, 1, <<>>),
                  NoneVal, NoneVal, NoneVal),
          Message(4, "status", TRUE, NoMetadata, NoneVal, NoneVal, NoneVal)}

\* MQTTHandler.start: message msg is received for camera c and
\* handle_message is spawned with it
DeliverRaw(c, msg) ==
    /\ life.ingress = "running"
    /\ Alive < MaxInFlight
    /\ delivered < MaxMsgs
    /\ delivered' = delivered + 1
    /\ tasks' = [tasks EXCEPT ![delivered + 1] =
                   [IdleTask EXCEPT !.kind = "handle_" \o msg.topic_type,
                                    !.pc = "handle_message", !.camera_id = c,
                                    !.segments = msg.segments, !.json_ok = msg.json_ok,
                                    !.metadata = msg.metadata,
                                    !.request_id = msg.request_id,
                                    !.timestamp_us = msg.timestamp_us,
                                    !.image_base64 = msg.image_base64]]
    /\ stats' = [stats EXCEPT !.messages_received = @ + 1]
    /\ UNCHANGED <<settings, scene, camstate, cooldown, side_event, side_meta, events,
                   analyses, published, jobs, permits, clock, expiries, evicted_max,
                   dispatched, life>>

\* handle_message with every check left out
RouteUnchecked(T) ==
    CASE T.kind = "handle_metadata" -> "am_zadd"
      [] T.kind = "handle_frame" -> "af_read"
      [] T.kind = "handle_status" -> "set_camera_state"
      [] OTHER -> "drop"

\* handle_message and the start of the handler it calls, up to the first
\* await: where the task goes on, or "drop" if the message is let go
Route(T) ==
    IF T.segments < 3 THEN "drop"                       \* "Invalid topic format"
    ELSE IF T.segments = 3 THEN "drop"                  \* topic_type None: "Unknown topic type"
    ELSE IF ~T.json_ok THEN "drop"                      \* json.JSONDecodeError
    ELSE CASE T.kind = "handle_metadata" -> "am_zadd"
           [] T.kind = "handle_frame" ->
                IF Truthy(T.request_id) /\ Truthy(T.timestamp_us) /\ Truthy(T.image_base64)
                THEN "af_read" ELSE "drop"              \* "Invalid frame message"
           [] T.kind = "handle_status" -> "set_camera_state"
           [] OTHER -> "drop"

\* the task of a received message runs up to its first await; handle_status
\* is at its one write there
HandleMessage(t) ==
    LET T == tasks[t]
        pc == Route(T) IN
    /\ T.pc = "handle_message"
    /\ tasks' = [tasks EXCEPT ![t] =
                   CASE pc = "drop" -> Ended([T EXCEPT !.dropped = TRUE], "done")
                     [] pc = "set_camera_state" -> Ended(T, "done")
                     [] OTHER -> [T EXCEPT !.pc = pc]]
    /\ camstate' = IF pc = "set_camera_state"
                   THEN [camstate EXCEPT
                           ![T.camera_id] = set_camera_state(@, "status", Online, status_ttl)]
                   ELSE camstate
    /\ UNCHANGED <<settings, scene, cooldown, side_event, side_meta, events, analyses,
                   published, jobs, permits, clock, stats, delivered, expiries,
                   evicted_max, dispatched, life>>

\* Database.store_analysis raises: analyze_scene logs the error, returns
\* None and releases the permit
JobStoreAnalysisFails(j) ==
    /\ j \in JobIds
    /\ jobs[j].pc = "store_analysis"
    /\ jobs' = [jobs EXCEPT ![j] = Returned(jobs[j], "none", FALSE)]
    /\ permits' = permits + 1
    /\ UNCHANGED <<settings, scene, camstate, cooldown, side_event, side_meta, events,
                   analyses, published, tasks, clock, stats, delivered, expiries,
                   evicted_max, dispatched, life>>

\* the truck of BusMetadata: it makes should_request_frame fire
Truck == Metadata(StampUnit, 1, 90, NoneVal, <<[class_id |-> 7, confidence |-> 80]>>)

NextLife ==
    \/ LifespanStep
    \/ IngressStep
    \/ \E c \in Cameras, msg \in RawMessages : DeliverRaw(c, msg)
    \/ \E c \in Cameras : DeliverMetadata(c, Truck)
    \/ \E c \in Cameras, r \in RequestIds : DeliverFrame(c, r, StampUnit)
    \/ \E t \in TaskIds : HandleMessage(t)
    \/ \E t \in TaskIds : SceneStep(t) \/ TriggerStep(t) \/ MetadataStep(t) \/ FrameStep(t)
    \/ \E j \in JobSlots : JobStep(j) \/ JobStoreAnalysisFails(j)

SpecLife == InitLife /\ [][NextLife]_vars

(***************************************************************************)
(* SpecAgent: the service from process start under configurations with and *)
(* without a usable provider, up to the analyses of the frames it requests *)
(***************************************************************************)
\* the default provider with its key, without its key, and a provider name
\* create_ai_agent does not know
InitAgent ==
    LET AgentConfigs == {DefaultSettings, [DefaultSettings EXCEPT !.api_key = FALSE],
                         [DefaultSettings EXCEPT !.ai_provider = "other"]}
    IN \E cfg \in AgentConfigs : InitLifeUnder(cfg)

NextAgent ==
    \/ LifespanStep
    \/ IngressStep
    \/ \E c \in Cameras : DeliverMetadata(c, Truck)
    \/ \E c \in Cameras, r \in RequestIds : DeliverFrame(c, r, StampUnit)
    \/ \E t \in TaskIds : SceneStep(t) \/ CheckCooldown(t) \/ MetadataStep(t) \/ FrameStep(t)
    \/ \E j \in JobSlots : JobStep(j)

SpecAgent == InitAgent /\ [][NextAgent]_vars

\* no add_metadata / add_frame_image call is in progress on camera c
Quiescent(c) ==
    \A t \in TaskIds :
        tasks[t].camera_id = c =>
            tasks[t].pc \notin {"am_zadd", "am_trim", "af_read", "af_zadd", "af_trim"}

\* C1: once every add_metadata / add_frame_image call on a camera has
\* finished, its sorted set holds at most scene_memory_frames entries, no
\* entry trimmed since the key was created is newer than an entry still in
\* the set, and nothing was trimmed from a set that is not full.
C1_SceneMemoryKeepsNewest ==
    \A c \in Cameras :
        Quiescent(c) =>
            /\ Cardinality(scene[c]) <= scene_memory_frames
            /\ \A e \in scene[c] : evicted_max[c] <= e.timestamp_us
            /\ evicted_max[c] # NoneVal => Cardinality(scene[c]) = scene_memory_frames

\* an overlapping pair of calls has finished and an entry was evicted
C1_Witness ==
    \E c \in Cameras :
        /\ Quiescent(c)
        /\ evicted_max[c] # NoneVal
        /\ Cardinality(scene[c]) = scene_memory_frames
        /\ \E e \in scene[c] : e.has_image

(***************************************************************************)
(* Duplicate frames, cooldown and correlation                              *)
(***************************************************************************)
DispatchesOf(r) == {i \in 1..Len(dispatched) : dispatched[i].request_id = r}
RecordsOf(event_id) == {i \in 1..Len(analyses) : analyses[i].trigger_event_id = event_id}

\* C2: the deliveries of one frame message (one request_id), handled one
\* after the other or by overlapping tasks, lead to at most one analysis
\* dispatch and at most one analysis record.
C2_DuplicateFrameOneAnalysis ==
    /\ \A r \in RequestIds : Cardinality(DispatchesOf(r)) <= 1
    /\ \A i \in 1..Len(published) : Cardinality(RecordsOf(published[i].event_id)) <= 1

\* C3 as stated: no frame_request is published for a camera while that
\* camera's cooldown mark is present.
C3_NoPublishUnderCooldown ==
    \A i \in 1..Len(published) : ~published[i].mark_at_publish

\* C3 as amended: a frame_request is published only by a handler whose own
\* cooldown check found the mark absent (the mark may have been written by
\* an overlapping handler between that check and the publish).
C3_PublishOnlyAfterClearCheck ==
    \A i \in 1..Len(published) : ~published[i].mark_at_check

\* a handler published although the mark had been set after its check
C3_Witness ==
    \E i \in 1..Len(published) :
        published[i].mark_at_publish /\ ~published[i].mark_at_check

\* C4: a metadata message whose cooldown check finds the mark present gets
\* (false, "cooldown") from should_request_frame and its handler ends there:
\* nothing is published and no side-table key is written.
C4_CooldownSuppresses ==
    [][\A t \in TaskIds :
          (/\ tasks[t].pc = "check_cooldown"
           /\ tasks'[t].pc # "check_cooldown"
           /\ cooldown[tasks[t].camera_id])
          => /\ tasks'[t].pc = "done"
             /\ tasks'[t].should_request = FALSE
             /\ tasks'[t].reason = "cooldown"
             /\ published' = published
             /\ side_event' = side_event
             /\ side_meta' = side_meta]_vars

\* after a completed request_frame, a later triggering message was suppressed
C4_Witness ==
    \E t \in TaskIds :
        /\ tasks[t].kind = "handle_metadata"
        /\ tasks[t].pc = "done"
        /\ tasks[t].reason = "cooldown"
        /\ cooldown[tasks[t].camera_id]
        /\ stats.frame_requests_sent = 1
        /\ Len(published) = 1

\* the decision list of the trigger evaluator: first match wins
ReferenceDecision(cooldown_active, cfg, m, last_scene_hash) ==
    IF cooldown_active THEN <<FALSE, "cooldown">>
    ELSE IF ~cfg.frame_request_enabled THEN <<FALSE, "disabled">>
    ELSE IF m.motion_score # NoneVal /\ m.motion_score > motion_threshold
    THEN <<TRUE, "high_motion">>
    ELSE IF FirstVehicle(m.detections) # 0
    THEN <<TRUE, VehicleReason(m.detections[FirstVehicle(m.detections)].class_id)>>
    ELSE IF /\ cfg.scene_change_enabled
            /\ m.scene_hash # NoneVal
            /\ last_scene_hash # NoneVal
            /\ last_scene_hash # m.scene_hash
    THEN <<TRUE, "scene_change">>
    ELSE <<FALSE, "no_trigger">>

\* C5: should_request_frame returns what the decision list gives for the
\* cooldown flag, the enabled flags, the message and the stored hash.
C5_MatchesDecisionList ==
    \A t \in TaskIds :
        (tasks[t].kind = "should_request_frame" /\ tasks[t].pc = "done")
        => <<tasks[t].should_request, tasks[t].reason>> =
             ReferenceDecision(tasks[t].mark_at_check, settings, tasks[t].metadata,
                               tasks[t].hash_at_call)

\* the published request with id r
RequestOf(r) == CHOOSE i \in 1..Len(published) : published[i].request_id = r

\* C6: for every request whose frame was handled while the side table was
\* live, exactly one analysis is dispatched, with the event_id and the
\* trigger metadata stored for that request_id.
C6_ExactlyOneMatchingAnalysis ==
    /\ \A i \in 1..Len(dispatched) :
          /\ dispatched[i].event_id = published[RequestOf(dispatched[i].request_id)].event_id
          /\ dispatched[i].trigger_metadata =
               published[RequestOf(dispatched[i].request_id)].trigger_metadata
    /\ \A t \in TaskIds :
          (tasks[t].kind = "handle_frame" /\ tasks[t].pc = "done"
             /\ tasks[t].event_id # NoneVal)
          => Cardinality(DispatchesOf(tasks[t].request_id)) = 1

EventIds == {events[i].id : i \in 1..Len(events)}

\* C7 as stated: the trigger_event_id of every analysis record is the id
\* of a stored event, every event_id written to a side table is the id of a
\* stored event, and every analysis is dispatched with such an id.
C7_AnalysisRefersToEvent ==
    /\ \A i \in 1..Len(analyses) : analyses[i].trigger_event_id \in EventIds
    /\ \A r \in RequestIds : side_event[r] # NoneVal => side_event[r] \in EventIds
    /\ \A i \in 1..Len(dispatched) : dispatched[i].event_id \in EventIds

\* C7 as amended: the trigger_event_id of every analysis record is the id
\* of a stored event and every analysis is dispatched with such an id; an
\* event_id in a side table is the id of a stored event or the 0 of a
\* manual request, and a published request that carries a stored event's
\* id was made by a metadata handler.
C7_AnalysisRefersToEventOrManual ==
    /\ \A i \in 1..Len(analyses) : analyses[i].trigger_event_id \in EventIds
    /\ \A r \in RequestIds :
          side_event[r] # NoneVal => side_event[r] \in EventIds \cup {ManualEventId}
    /\ \A i \in 1..Len(dispatched) : dispatched[i].event_id \in EventIds
    /\ \A i \in 1..Len(published) :
          IF published[i].reason = "manual_request"
          THEN published[i].event_id = ManualEventId
          ELSE published[i].event_id \in EventIds

\* an analysis record has been persisted for a stored event
C7_Witness ==
    /\ Len(analyses) >= 1
    /\ \E i \in 1..Len(published) : analyses[1].trigger_event_id = published[i].event_id

(***************************************************************************)
(* The dispatcher                                                          *)
(***************************************************************************)
\* C8: at most max_concurrent_analyses analyze_scene executions hold a
\* permit, the permits held and free add up to the width, and a dispatch
\* that finds no permit stays queued until it gets one.
C8_BoundedAnalyses ==
    /\ [](/\ Cardinality(Holders) <= max_concurrent_analyses
          /\ permits = max_concurrent_analyses - Cardinality(Holders))
    /\ [][\A j \in JobIds :
             jobs[j].pc = "acquire" => jobs'[j].pc \in {"acquire", "get_frames"}]_vars

\* all permits are held and a further dispatch waits
C8_Witness ==
    /\ permits = 0
    /\ Cardinality(Holders) = max_concurrent_analyses
    /\ \E j \in JobIds : jobs[j].pc = "acquire"

\* C9: every analysis record has frames_analyzed in 1..5 and a duration_ms
\* that is not negative.
C9_AnalysisRecordRanges ==
    \A i \in 1..Len(analyses) :
        /\ analyses[i].frames_analyzed \in 1..RecentLimit
        /\ analyses[i].duration_ms >= 0

C11_PairDeletedAfterMatch ==
    \A t \in TaskIds :
        (/\ tasks[t].kind = "handle_frame"
         /\ tasks[t].pc = "done"
         /\ tasks[t].event_id # NoneVal)
        => /\ side_event[tasks[t].request_id] = NoneVal
           /\ side_meta[tasks[t].request_id] = NoMetadata

\* the published request made by task t, if any
PublishedBy(t) == {i \in 1..Len(published) : published[i].request_id = tasks[t].new_request_id}

\* C12: request_frame has written both side-table keys when it publishes,
\* and the cooldown mark is written and frame_requests_sent incremented
\* only by a request_frame whose publish has already been made; the
\* publish itself changes neither.
C12_SideTableThenPublishThenCooldown ==
    /\ [](\A i \in 1..Len(published) : published[i].side_written = 2)
    /\ [][((\E c \in Cameras : cooldown'[c] /\ ~cooldown[c])
             \/ stats'.frame_requests_sent # stats.frame_requests_sent)
          => /\ published' = published
             /\ \E t \in TaskIds : /\ tasks[t].pc = "rf_set_cooldown"
                                   /\ tasks'[t].pc = "done"
                                   /\ PublishedBy(t) # {}]_vars
    /\ [][published' # published
          => /\ cooldown' = cooldown
             /\ stats'.frame_requests_sent = stats.frame_requests_sent
             /\ side_event' = side_event
             /\ side_meta' = side_meta]_vars

\* a request_frame has run to its end: keys, publish, mark, counter
C12_Witness ==
    /\ Len(published) = 1
    /\ published[1].side_written = 2
    /\ cooldown[published[1].camera_id]
    /\ stats.frame_requests_sent = 1
    /\ side_event[published[1].request_id] = published[1].event_id

\* task t leaves request_frame's publish without a message having been sent
PublishFailed(t) ==
    /\ tasks[t].pc = "rf_publish"
    /\ tasks'[t].pc # "rf_publish"
    /\ published' = published

\* C13: when the publish fails, both side-table keys had been written and
\* are left as they are, the cooldown mark is not set and
\* frame_requests_sent is unchanged.
C13_FailedPublishLeavesNoMark ==
    [][\A t \in TaskIds :
          PublishFailed(t)
          => /\ tasks[t].side_written = 2
             /\ side_event' = side_event
             /\ side_meta' = side_meta
             /\ cooldown' = cooldown
             /\ stats' = stats]_vars

\* the first message's publish failed, no mark was set, and the second
\* message for the same camera issued a request
C13_Witness ==
    /\ Len(published) = 1
    /\ published[1].request_id = 2
    /\ ~published[1].mark_at_check
    /\ ~published[1].mark_at_publish
    /\ tasks[1].kind = "handle_metadata"
    /\ tasks[1].pc = "done"
    /\ tasks[1].should_request
    /\ tasks[1].camera_id = published[1].camera_id
    /\ tasks[2].pc = "done"
    /\ stats.frame_requests_sent = 1
    /\ expiries = 0

\* C14: when the publish fails, the caller of request_frame (handle_metadata
\* or the manual request endpoint) gets the error: it ends on its error
\* path, not as after a request that was sent.
C14_FailedPublishReachesCaller ==
    [][\A t \in TaskIds : PublishFailed(t) => tasks'[t].pc = "failed"]_vars

(***************************************************************************)
(* Merging a frame into scene memory                                       *)
(***************************************************************************)
\* the entries of S within the tolerance of ts
Matching(S, ts) == {e \in S : Abs(e.timestamp_us - ts) < Tolerance}

\* task t takes add_frame_image's decision in this step
FrameDecision(t) ==
    /\ tasks[t].pc = "af_read"
    /\ tasks'[t].pc = "af_zadd"

\* what add_frame_image is about to write is an upgrade of an entry of S
\* within the tolerance when there is one, and else a new image-only entry
DecidedOn(t, S) ==
    LET T == tasks[t]
        hits == Matching(S, T.timestamp_us)
    IN IF hits # {}
       THEN \E e \in hits :
               tasks'[t].entry = UpgradeEntry(e, T.request_id, T.image_base64)
       ELSE tasks'[t].entry = ImageEntry(T.timestamp_us, T.request_id, T.image_base64)

\* C15 as stated: add_frame_image upgrades an entry iff some entry in the
\* camera's set at that time is less than 1 000 000 away from the frame's
\* timestamp, and else inserts an image-only entry with the frame's timestamp.
C15_UpgradeIffWithinTolerance ==
    [][\A t \in TaskIds : FrameDecision(t) => DecidedOn(t, scene[tasks[t].camera_id])]_vars

\* the entries get_scene_memory returns from S
Newest(S) == {get_scene_memory(S, scene_memory_frames)[i] :
                 i \in 1..Len(get_scene_memory(S, scene_memory_frames))}

\* C15 as amended: add_frame_image upgrades an entry iff some entry among
\* the scene_memory_frames newest of the camera's set, as it reads them, is
\* less than 1 000 000 away from the frame's timestamp, and else inserts an
\* image-only entry; while the set holds no more than scene_memory_frames
\* entries these are all its entries.
C15_UpgradeIffNewestWithinTolerance ==
    [][\A t \in TaskIds :
          FrameDecision(t)
          => /\ DecidedOn(t, Newest(scene[tasks[t].camera_id]))
             /\ Cardinality(scene[tasks[t].camera_id]) <= scene_memory_frames
                => DecidedOn(t, scene[tasks[t].camera_id])]_vars

\* a frame exactly one second away from an entry is about to be inserted
\* as a new entry, and another is about to upgrade an entry
C15_Witness ==
    \E t \in TaskIds, u \in TaskIds :
        /\ tasks[t].pc = "af_zadd"
        /\ tasks[t].entry = ImageEntry(tasks[t].timestamp_us, 1, 1)
        /\ \E e \in scene[tasks[t].camera_id] :
              Abs(e.timestamp_us - tasks[t].timestamp_us) = Tolerance
        /\ tasks[u].pc = "af_zadd"
        /\ tasks[u].entry.has_meta

\* C16: when add_frame_image has matched an entry, its write replaces that
\* entry: the set keeps its number of entries, holds the entry with
\* has_image, image_base64 and request_id, and holds no has_image=false
\* copy of it any more.
C16_UpgradeReplacesInPlace ==
    [][\A t \in TaskIds :
          LET T == tasks[t]
              c == T.camera_id
          IN (/\ T.pc = "af_zadd"
              /\ tasks'[t].pc = "af_trim"
              /\ T.entry # ImageEntry(T.timestamp_us, T.request_id, T.image_base64))
             => /\ Cardinality(scene'[c]) = Cardinality(scene[c])
                /\ T.entry \in scene'[c]
                /\ \A f \in scene'[c] :
                      ~(/\ ~f.has_image
                        /\ UpgradeEntry(f, T.request_id, T.image_base64) = T.entry)]_vars

(***************************************************************************)
(* Claims: timestamps in scene memory                                      *)
(***************************************************************************)
\* C17: every entry of every camera's scene memory has timestamp_us > 0,
\* whatever timestamps (missing, zero, negative, positive) the metadata and
\* frame messages carried.
C17_EntriesHavePositiveTimestamp ==
    \A c \in Cameras : \A e \in scene[c] : e.timestamp_us > 0

(***************************************************************************)
(* Claims: the scene-change rule over successive messages                  *)
(***************************************************************************)
\* the call of should_request_frame that returned last
LastCall == tasks[delivered]

\* C18: messages processed one at a time with cooldown inactive, triggers
\* enabled, low motion and no vehicle: a message carrying a scene hash when
\* no hash is stored records it and does not fire; with a hash stored the
\* message fires "scene_change" iff its hash differs from the stored one, and
\* after firing the stored hash is the message's hash.
C18_SceneChangeSequence ==
    (delivered > 0 /\ LastCall.pc = "done" /\ LastCall.metadata.scene_hash # NoneVal)
    => LET stored == camstate[LastCall.camera_id].last_scene_hash
           fired == LastCall.should_request /\ LastCall.reason = "scene_change"
       IN IF LastCall.hash_at_call = NoneVal
          THEN ~LastCall.should_request /\ stored = LastCall.metadata.scene_hash
          ELSE /\ fired <=> LastCall.hash_at_call # LastCall.metadata.scene_hash
               /\ LastCall.should_request => fired
               /\ fired => stored = LastCall.metadata.scene_hash
               /\ ~fired => stored = LastCall.hash_at_call

(***************************************************************************)
(* Claims: publishes within one cooldown window                            *)
(***************************************************************************)
\* the publishes handle_metadata tasks made for the camera of task u after u
\* wrote the cooldown mark and before that mark expired
PublishesInWindow(u) ==
    {i \in 1..Len(published) :
        /\ published[i].camera_id = tasks[u].camera_id
        /\ tasks[published[i].request_id].kind = "handle_metadata"
        /\ u \in published[i].in_window_of}

\* C19: for every write of a camera's cooldown mark, the publishes metadata
\* handlers make between the write and the mark's expiry number at most 1
\* plus the handlers that had passed the cooldown check at the write; until
\* it expires the mark stays present, and a handler that meets it at its
\* check does not publish.
C19_PublishesInWindowBounded ==
    /\ \A u \in TaskIds :
          tasks[u].racers # NoneVal
          => /\ Cardinality(PublishesInWindow(u)) <= 1 + tasks[u].racers
             /\ tasks[u].window_open => cooldown[tasks[u].camera_id]
    /\ \A i \in 1..Len(published) :
          published[i].in_window_of # {} => ~published[i].mark_at_check

\* two handlers passed the check before either wrote the mark; the second
\* published inside the window the first one opened
C19_Witness ==
    \E u \in TaskIds :
        /\ tasks[u].racers = 1
        /\ tasks[u].window_open
        /\ Cardinality(PublishesInWindow(u)) = 1
        /\ PassedCheck(tasks[u].camera_id) = {}

(***************************************************************************)
(* Claims: a provider call that fails                                      *)
(***************************************************************************)
\* C20: when the provider call of analyze_scene raises or times out, the
\* analysis ends at once returning none: no record is stored by that step or
\* later, no second provider call is made, no new analysis is dispatched,
\* and the permit is given back.
C20_ProviderErrorEndsAnalysis ==
    /\ [][\A j \in JobSlots :
             (j \in JobIds /\ jobs[j].pc = "call_provider" /\ jobs'[j].provider_error)
             => /\ jobs'[j].pc = "done"
                /\ jobs'[j].result = "none"
                /\ analyses' = analyses
                /\ permits' = permits + 1
                /\ Len(jobs') = Len(jobs)]_vars
    /\ [][\A j \in JobIds : jobs[j].pc = "done" => jobs'[j] = jobs[j]]_vars
    /\ [](/\ \A j \in JobIds : jobs[j].provider_calls <= 1
          /\ Len(analyses) = Cardinality({j \in JobIds : jobs[j].result = "stored"}))

\* every analysis has returned, one of them after a provider error, and all
\* permits are free again
C20_Witness ==
    /\ Len(jobs) = MaxJobs
    /\ \A j \in JobIds : jobs[j].pc = "done"
    /\ \E j \in JobIds : jobs[j].provider_error /\ jobs[j].result = "none"
    /\ \E j \in JobIds : jobs[j].result = "stored"
    /\ Len(analyses) < Len(jobs)
    /\ permits = max_concurrent_analyses

(***************************************************************************)
(* Claims: an empty provider response                                      *)
(***************************************************************************)
\* C21: an analysis whose provider returned an empty response (no content,
\* empty text) stores no analysis record and returns none to its caller.
C21_EmptyResponseNotPersisted ==
    [][\A j \in JobSlots :
          (j \in JobIds /\ jobs[j].pc = "store_analysis" /\ jobs[j].response = "empty")
          => /\ analyses' = analyses
             /\ jobs'[j].pc = "done" => jobs'[j].result = "none"]_vars

(***************************************************************************)
(* Claims: termination of analyses                                         *)
(***************************************************************************)
\* the positions of analyze_scene inside "async with self.semaphore"
HoldingPcs == {"get_frames", "get_context", "call_provider", "store_analysis"}

\* C22: for both providers, every analysis that holds a permit eventually
\* releases it, even if the provider never answers, and every analysis
\* waiting for a permit eventually acquires one.
C22_PermitsEventuallyReleased ==
    \A j \in 1..MaxJobs :
        /\ (j \in JobIds /\ jobs[j].pc \in HoldingPcs) ~> (j \in JobIds /\ jobs[j].pc = "done")
        /\ (j \in JobIds /\ jobs[j].pc = "acquire") ~> (j \in JobIds /\ jobs[j].pc # "acquire")

(***************************************************************************)
(* Claims: reading scene memory                                            *)
(***************************************************************************)
\* add_metadata called on its own returns (its last step is the trim), the
\* key not having expired since its ZADD
MetadataInserted(t) ==
    /\ tasks[t].kind = "add_metadata"
    /\ tasks[t].pc = "am_trim"
    /\ tasks'[t].pc = "done"
    /\ InFlight = {t}
    /\ tasks[t].entry \in scene[tasks[t].camera_id]

\* get_recent_frames(camera, limit=1, with_images=False) returns one entry
\* with the five fields of message m
RecentIs(S, m) ==
    LET r == get_recent_frames(S, 1, FALSE)
    IN /\ Len(r) = 1
       /\ r[1].timestamp_us = m.timestamp_us
       /\ r[1].motion_score = m.motion_score
       /\ r[1].object_count = m.object_count
       /\ r[1].scene_hash = m.scene_hash
       /\ Len(r[1].detections) = Len(m.detections)

\* C23 as stated: after a metadata insert, recent(camera, k=1) returns an
\* entry with the message's timestamp_us, motion_score, object_count,
\* scene_hash and number of detections, whatever the camera's scene memory
\* held before.
C23_InsertThenRecent ==
    [][\A t \in TaskIds :
          MetadataInserted(t) => RecentIs(scene'[tasks[t].camera_id], tasks[t].metadata)]_vars

\* the message of task t is newer than every other entry of its camera
NewerThanRest(t) ==
    \A e \in scene[tasks[t].camera_id] \ {tasks[t].entry} :
        e.timestamp_us < tasks[t].metadata.timestamp_us

\* C23 amended: the round trip holds when the inserted message's timestamp
\* is greater than the timestamp of every other entry present.
C23_InsertNewestThenRecent ==
    [][\A t \in TaskIds :
          (MetadataInserted(t) /\ NewerThanRest(t))
          => RecentIs(scene'[tasks[t].camera_id], tasks[t].metadata)]_vars

\* a message newer than the entries of a full scene memory has been written
\* and add_metadata is about to trim and return
C23_Witness ==
    \E t \in TaskIds :
        /\ tasks[t].kind = "add_metadata"
        /\ tasks[t].pc = "am_trim"
        /\ InFlight = {t}
        /\ NewerThanRest(t)
        /\ tasks[t].entry \in scene[tasks[t].camera_id]
        /\ Cardinality(scene[tasks[t].camera_id]) = scene_memory_frames + 1

\* the calls of get_context_for_analysis made so far
ContextCalls == {t \in TaskIds : tasks[t].kind = "get_context_for_analysis"}

\* C24 as stated: frames_available of a camera's context is the number of
\* entries in the camera's scene-memory set, whatever scene_memory_frames
\* the set was filled under.
C24_FramesAvailableIsCardinality ==
    \A t \in ContextCalls :
        tasks[t].frames_available = Cardinality(scene[tasks[t].camera_id])

\* C24 amended: frames_available is the number of entries of the set up to
\* the 30 the context reads, and 30 for a larger set.
C24_FramesAvailableUpToLimit ==
    \A t \in ContextCalls :
        LET n == Cardinality(scene[tasks[t].camera_id])
        IN tasks[t].frames_available = IF n <= ContextLimit THEN n ELSE ContextLimit

\* the context of a set of exactly 30 entries and of a larger set were read
C24_Witness ==
    /\ \E t \in ContextCalls : Cardinality(scene[tasks[t].camera_id]) = ContextLimit
    /\ \E t \in ContextCalls : Cardinality(scene[tasks[t].camera_id]) > ContextLimit

NonDecreasing(frames) ==
    \A i \in 1..(Len(frames) - 1) : frames[i].timestamp_us <= frames[i + 1].timestamp_us

\* C25: whenever a camera's scene memory is read, by get_scene_memory with
\* the limits the code uses or by get_recent_frames with any limit and
\* filter, the entries come in non-decreasing timestamp_us order, whatever
\* the order of the inserts.
C25_ReadsAreOrdered ==
    \A c \in Cameras :
        /\ \A limit \in {scene_memory_frames, ContextLimit} :
              NonDecreasing(get_scene_memory(scene[c], limit))
        /\ \A k \in 0..RecentLimit, with_images \in BOOLEAN :
              NonDecreasing(get_recent_frames(scene[c], k, with_images))

\* add_metadata has just written an entry older than one already in the set
C25_Witness ==
    \E t \in TaskIds :
        /\ tasks[t].pc = "am_trim"
        /\ InFlight = {t}
        /\ tasks[t].entry \in scene[tasks[t].camera_id]
        /\ \E e \in scene[tasks[t].camera_id] :
              e.timestamp_us > tasks[t].entry.timestamp_us
        /\ \E e \in scene[tasks[t].camera_id] : e.has_image

\* the steps of the finally block of lifespan, in the order of the code
ShutdownOrder == <<"stop", "cancel", "mqtt_disconnect", "redis_disconnect", "db_disconnect">>

IsShutdownStep(step) == \E i \in 1..Len(ShutdownOrder) : ShutdownOrder[i] = step

\* the shutdown steps done so far, in the order they were done
ShutdownLog == SelectSeq(life.log, IsShutdownStep)

PlaceIn(order, step) == CHOOSE i \in 1..Len(order) : order[i] = step

\* log holds steps of order, each once, in the order of order
FollowsOrder(log, order) ==
    \A i, j \in 1..Len(log) :
        i < j => PlaceIn(order, log[i]) < PlaceIn(order, log[j])

RedisPcs == {"am_trim", "af_read", "af_zadd", "af_trim", "check_cooldown", "get_state",
             "set_state", "rf_setex_event", "rf_setex_meta", "rf_set_cooldown",
             "hf_get_event", "hf_delete"}
DbPcs == {"store_event"}
BusPcs == {"rf_publish"}

\* the same for an analysis
JobRedisPcs == {"get_frames", "get_context"}
JobDbPcs == {"store_analysis"}

\* handler t, or analysis j, does the operation it is at
TaskActs(t) == tasks'[t].pc # tasks[t].pc
JobActs(j) == j \in JobIds /\ jobs'[j].pc # jobs[j].pc

\* C27: no handler and no analysis does a bus, key-value-store or
\* relational-store operation after lifespan has closed that client.
C27_NoOperationAfterClose ==
    [][/\ \A t \in TaskIds :
             TaskActs(t) =>
                /\ tasks[t].pc \in RedisPcs => life.redis # "closed"
                /\ tasks[t].pc \in DbPcs => life.db # "closed"
                /\ tasks[t].pc \in BusPcs => life.bus # "closed"
       /\ \A j \in JobSlots :
             JobActs(j) =>
                /\ jobs[j].pc \in JobRedisPcs => life.redis # "closed"
                /\ jobs[j].pc \in JobDbPcs => life.db # "closed"]_vars

\* the steps of the try block of lifespan, in the order of the code
StartupOrder == <<"db_pool", "db_schema", "redis_connect", "mqtt_connect", "mqtt_subscribe",
                  "create_task">>

IsStartupStep(step) == \E i \in 1..Len(StartupOrder) : StartupOrder[i] = step

\* the startup steps done so far, in the order they were done
StartupLog == SelectSeq(life.log, IsStartupStep)

\* C28: the startup steps done are an initial part of pool, schema,
\* key-value store, bus connect, subscribe, ingress task; a message has been
\* received only if both stores were connected before; and once the schema
\* bootstrap has failed, the key-value store, the bus client and the ingress
\* task are never created and lifespan ends with that error.
C28_StartupOrder ==
    /\ StartupLog = SubSeq(StartupOrder, 1, Len(StartupLog))
    /\ delivered > 0 => SubSeq(StartupLog, 1, 3) = SubSeq(StartupOrder, 1, 3)
    /\ life.ingress # "none" => StartupLog = StartupOrder
    /\ life.error = "db_schema" =>
          /\ life.redis = "none" /\ life.bus = "none" /\ life.ingress = "none"
          /\ delivered = 0
          /\ life.pc \in {"stop", "mqtt_disconnect", "redis_disconnect", "db_disconnect",
                          "ended"}
    /\ (life.pc = "ended" /\ StartupLog # StartupOrder) => life.error # ""

\* the schema bootstrap failed and lifespan has ended with the error, the
\* pool closed
C28_Witness ==
    /\ life.pc = "ended"
    /\ life.error = "db_schema"
    /\ life.db = "closed"

\* the ingress loop can take a message: the bounds apart, it is running
Receivable ==
    (life.ingress = "running" /\ delivered < MaxMsgs /\ Alive < MaxInFlight) =>
        ENABLED (\E c \in Cameras : DeliverMetadata(c, Truck))

\* handlers and analyses that ended on an exception: a payload that is not
\* JSON, a store error, a provider error
FailedTasks == {t \in TaskIds : tasks[t].pc = "failed" \/ tasks[t].dropped}
FailedJobs == {j \in JobIds : jobs[j].pc = "done" /\ jobs[j].result = "none"}

\* C29: a step of a handler or of an analysis, failing or not, leaves the
\* ingress task and the clients as they are (of the process it changes no
\* more than the agent a dispatch makes), and a running loop takes the next
\* message whatever became of the messages before.
C29_IngressSurvivesHandlerFailure ==
    /\ []Receivable
    /\ [][(tasks' # tasks \/ jobs' # jobs) => [life' EXCEPT !.agent = life.agent] = life]_vars

\* a handler ended on an error, and a message received after it was handled
\* to its end by a loop that still runs
C29_Witness ==
    /\ life.ingress = "running"
    /\ \E t, u \in TaskIds :
          /\ t < u
          /\ t \in FailedTasks
          /\ tasks[u].pc = "done" /\ ~tasks[u].dropped

\* the message of task T is one handle_message is required to drop: its
\* payload is not JSON, its topic has fewer than 4 parts, or it is a frame
\* without request_id, timestamp_us or image_base64
Malformed(T) ==
    \/ ~T.json_ok
    \/ T.segments < 4
    \/ /\ T.kind = "handle_frame"
       /\ NoneVal \in {T.request_id, T.timestamp_us, T.image_base64}

\* C30: the task of a malformed message ends in its first step, and that
\* step leaves scene memory, camera state, cooldown marks, side tables,
\* events and analyses as they were, publishes nothing and dispatches nothing.
C30_MalformedMessageDropped ==
    [][\A t \in TaskIds :
          (tasks[t].pc = "handle_message" /\ Malformed(tasks[t]) /\ TaskActs(t)) =>
             /\ tasks'[t].pc = "done" /\ tasks'[t].dropped
             /\ UNCHANGED <<scene, camstate, cooldown, side_event, side_meta, events,
                            analyses, published, dispatched, jobs>>]_vars

\* a message was dropped by a service whose stores hold something
C30_Witness ==
    \E t \in TaskIds :
        /\ tasks[t].dropped
        /\ tasks[t].pc = "done"
        /\ scene[tasks[t].camera_id] # {}

\* the entries of S nearest to ts
Nearest(S, ts) ==
    {e \in S : \A f \in S : Abs(e.timestamp_us - ts) <= Abs(f.timestamp_us - ts)}

\* C31: when add_frame_image reads several entries within the tolerance of
\* the frame's timestamp, the entry it upgrades is one of those nearest to
\* that timestamp.
C31_UpgradesNearestEntry ==
    [][\A t \in TaskIds :
          LET T == tasks[t]
              hits == Matching(Newest(scene[T.camera_id]), T.timestamp_us)
          IN (FrameDecision(t) /\ Cardinality(hits) > 1) =>
                \E e \in Nearest(hits, T.timestamp_us) :
                    tasks'[t].entry = UpgradeEntry(e, T.request_id, T.image_base64)]_vars

\* task t inserts the entry it built from a metadata message in this step
MetadataInsert(t) ==
    /\ tasks[t].pc = "am_zadd"
    /\ tasks'[t].pc = "am_trim"

\* C32: after an insert of an entry into a camera's scene memory, the set
\* holds no other entry with that timestamp_us: an entry inserted earlier
\* with the same timestamp has given way to the later one.
C32_LaterInsertionWins ==
    [][\A t \in TaskIds :
          MetadataInsert(t) =>
             {e \in scene'[tasks[t].camera_id] :
                 e.timestamp_us = tasks'[t].entry.timestamp_us} = {tasks'[t].entry}]_vars

\* handlers that have read a stored last_scene_hash other than their
\* message's hash and are about to write theirs and return
\* (true, "scene_change")
FiringSceneChange(c, hash) ==
    {t \in TaskIds : /\ tasks[t].kind = "handle_metadata"
                     /\ tasks[t].pc = "set_state"
                     /\ tasks[t].camera_id = c
                     /\ tasks[t].metadata.scene_hash = hash
                     /\ tasks[t].should_request /\ tasks[t].reason = "scene_change"}

\* C33: of the handlers of one camera that overlap and carry the same
\* scene_hash, at most one fires "scene_change" while the stored
\* last_scene_hash differs from that hash.
C33_SceneChangeOncePerHash ==
    \A c \in Cameras, hash \in Hashes :
        camstate[c].last_scene_hash # hash => Cardinality(FiringSceneChange(c, hash)) <= 1

\* the results should_request_frame returns before the scene-change step
EarlyReasons == {"cooldown", "disabled", "high_motion"} \cup {VehicleReason(k) : k \in VehicleClasses}

Entries(r) == {r[i] : i \in 1..Len(r)}

\* r holds the k newest entries of pool, or all of pool if it has fewer
KNewest(r, pool, k) ==
    /\ Len(r) <= k
    /\ Entries(r) \subseteq pool
    /\ Cardinality(Entries(r)) = Len(r)
    /\ Len(r) < k => Entries(r) = pool
    /\ \A e \in Entries(r), f \in pool \ Entries(r) : f.timestamp_us <= e.timestamp_us

\* C35: for every k >= 0 and either filter, get_recent_frames returns at
\* most k entries, the k with the highest timestamp_us of the camera's
\* entries (of those with an image under with_images), and the empty
\* sequence for a camera without scene memory.
C35_RecentReturnsKNewest ==
    \A c \in Cameras, k \in 0..RecentLimit, with_images \in BOOLEAN :
        KNewest(get_recent_frames(scene[c], k, with_images),
                {e \in scene[c] : with_images => e.has_image}, k)

\* the next step of handler task u
HandlerStep(u) ==
    HandleMessage(u) \/ SceneStep(u) \/ TriggerStep(u) \/ MetadataStep(u) \/ FrameStep(u)

\* C36: a running loop can take the next message while handlers of earlier
\* messages are still in flight, and every handler in flight can take its
\* next step whatever the other handlers and the analyses are waiting for.
C36_IngressDoesNotWait ==
    /\ Receivable
    /\ \A u \in InFlight : ENABLED HandlerStep(u)

\* a handler is still waiting on the relational store or on the bus and a
\* message received after its message has been handled to the end
C36_Witness ==
    \E t, u \in TaskIds :
        /\ t < u
        /\ tasks[t].pc \in {"store_event", "rf_publish"}
        /\ tasks[u].pc = "done" /\ ~tasks[u].dropped

\* C37: the agent exists before the first message is received; under a
\* configuration create_ai_agent rejects, lifespan fails at startup, so no
\* ingress task is ever created; and the agent in use is the configured one.
C37_ProviderSelectedAtStartup ==
    /\ delivered > 0 => life.agent \in Providers
    /\ create_ai_agent(settings) \notin Providers => life.ingress = "none" /\ life.pc # "serving"
    /\ life.agent # "none" => life.agent = settings.ai_provider


(***************************************************************************)
(* The image entry of a frame after add_frame_image                        *)
(***************************************************************************)
\* add_frame_image returns to task t's caller in this step
FrameImageReturns(t) ==
    /\ tasks[t].kind = "add_frame_image"
    /\ tasks[t].pc = "af_trim"
    /\ tasks'[t].pc # "af_trim"

\* C38: when add_frame_image(camera, request_id, ts, image) returns, the
\* camera's scene memory holds an entry with has_image true and that
\* request_id, whatever the set held before.
C38_ImageEntryPresentOnReturn ==
    [][\A t \in TaskIds :
          FrameImageReturns(t)
          => \E e \in scene'[tasks[t].camera_id] :
                e.has_image /\ e.request_id = tasks[t].request_id]_vars

(***************************************************************************)
(* Shutdown after the ingress task has failed                              *)
(***************************************************************************)
\* the clients lifespan made
Clients == {"bus", "redis", "db"}

\* C39: when lifespan has ended, every client that was made is closed,
\* also when the ingress task had ended with an MQTT loop error or startup
\* had failed part-way: no exception of the shutdown skips a close.
C39_ShutdownClosesEverything ==
    life.pc = "ended" => \A client \in Clients : life[client] \in {"none", "closed"}


(***************************************************************************)
(* Status messages and the scene-change rule                               *)
(***************************************************************************)
\* task t reads the camera state for a message that carries a scene hash
ReadsState(t) ==
    /\ tasks[t].pc = "get_state"
    /\ tasks'[t].pc # "get_state"
    /\ Truthy(tasks[t].metadata.scene_hash)

\* task t goes on to return (true, "scene_change")
Fires(t) == tasks'[t].pc = "set_state" /\ tasks'[t].should_request

\* C40: a status message leaves a stored last_scene_hash as it is; a message
\* whose hash is the stored one never fires scene_change, and a message whose
\* hash differs from the one written less than state_ttl seconds before it
\* fires scene_change, whatever status messages arrived in between.
C40_StatusKeepsSceneHash ==
    [][/\ \A c \in Cameras :
             stats' # stats => camstate'[c].last_scene_hash = camstate[c].last_scene_hash
       /\ \A t \in TaskIds :
             ReadsState(t) =>
                LET state == camstate[tasks[t].camera_id]
                    hash == tasks[t].metadata.scene_hash
                IN /\ hash = state.written => ~Fires(t)
                   /\ (state.hash_ttl > 0 /\ hash # state.written) => Fires(t)]_vars

====
